---------------------------- MODULE Spec2Model ----------------------------
(***************************************************************************)
(* A model of the Invest-sim simulation core: the rebalancing strategies,  *)
(* the forward Monte Carlo simulator, the tail-risk helpers and the option *)
(* margin simulator.                                                       *)
(*                                                                         *)
(* Numbers.  The program computes in floating point; the model computes in *)
(* exact rationals <<n, d>> (d > 0, lowest terms).  The IEEE specials that  *)
(* numpy produces are kept: <<1,0>> is +inf, <<-1,0>> is -inf and <<0,0>>   *)
(* is NaN, with the arithmetic that follows from the fraction rules.       *)
(* "Equal within floating tolerance" in the program is therefore plain     *)
(* equality in the model.                                                  *)
(*                                                                         *)
(* Volatilities.  An annual volatility is stored in units of sqrt(3), so   *)
(* that the program's division by sqrt(12) = 2*sqrt(3) is the exact        *)
(* division by 2 of the stored number.  Every use of volatilities by the    *)
(* strategies is a ratio or a comparison of volatilities, which the unit   *)
(* does not change.                                                        *)
(***************************************************************************)
EXTENDS Integers, Sequences, FiniteSets, TLC

(***************************************************************************)
(* State.  Each component of the core is exercised on its own: a strategy  *)
(* object under calls, an option margin simulator under its two runs, two  *)
(* forward simulators built from one configuration, the tail-risk helpers  *)
(* under calls, a backtester replaying one price table, and the return     *)
(* sampler under calls.                                                    *)
(***************************************************************************)
VARIABLES
    strategy,      \* the Strategy object (its fields), or Idle
    lastCall,      \* the last call made on it and its arguments
    returned,      \* what that call returned
    returnedIs,    \* which array that is: "fresh", "argument", "own" (or "none")
    configured,    \* the normalized weights of the configuration
    numCalls       \* calls made so far

VARIABLES
    sim,          \* the OptionMarginSimulator object (its fields), or Idle
    rngStream,    \* the standard-normal draws of default_rng(sim.seed) known so far
    optPc,        \* "ready", "single" (in run_single_path) or "mc" (in run_monte_carlo)
    sp,           \* run_single_path: its locals while it runs
    single,       \* the dict run_single_path returned, or NoResult
    mp,           \* run_monte_carlo: its locals while it runs
    mc            \* the dict run_monte_carlo returned, or NoResult

VARIABLES
    fwdConfig,      \* the SimulationConfig both forward simulators are built from
    fwdInputModel,  \* the input_model argument of both
    fwdSeed,        \* the seed argument of both
    fwd             \* the two ForwardSimulator objects: position, fields, run() locals, result

VARIABLES
    riskCall,      \* the arguments of the tail-risk helpers and the last one called
    riskReturned   \* what that call returned

VARIABLES
    btConfig,      \* the BacktestConfig the backtester is built from
    btPriceData,   \* the price_data argument of run()
    btPad,         \* whether the installed pandas pads missing prices in pct_change
    bt             \* the Backtester object: position, fields, run() locals, result

VARIABLES
    genCall,       \* the arguments of generate_returns, and whether it was called
    genReturned    \* what the call returned, and the generator after it

strategyVars == <<strategy, lastCall, returned, returnedIs, configured, numCalls>>

optionVars == <<sim, rngStream, optPc, sp, single, mp, mc>>

forwardVars == <<fwdConfig, fwdInputModel, fwdSeed, fwd>>

riskVars == <<riskCall, riskReturned>>

backtestVars == <<btConfig, btPriceData, btPad, bt>>

samplerVars == <<genCall, genReturned>>

vars == <<strategyVars, optionVars, forwardVars, riskVars, backtestVars, samplerVars>>

\* What the actions of one component leave alone.
notStrategy == <<optionVars, forwardVars, riskVars, backtestVars, samplerVars>>

notOption == <<strategyVars, forwardVars, riskVars, backtestVars, samplerVars>>

notForward == <<strategyVars, optionVars, riskVars, backtestVars, samplerVars>>

notRisk == <<strategyVars, optionVars, forwardVars, backtestVars, samplerVars>>

notBacktest == <<strategyVars, optionVars, forwardVars, riskVars, samplerVars>>

notSampler == <<strategyVars, optionVars, forwardVars, riskVars, backtestVars>>

(***************************************************************************)
(* Rational arithmetic                                                     *)
(***************************************************************************)
Abs(x) == IF x < 0 THEN -x ELSE x

Sign(x) == IF x < 0 THEN -1 ELSE IF x > 0 THEN 1 ELSE 0

RECURSIVE GCD(_, _)
GCD(a, b) == IF b = 0 THEN a ELSE GCD(b, a % b)

Norm(n, d) ==
    IF d = 0 THEN <<Sign(n), 0>>
    ELSE LET g == GCD(Abs(n), Abs(d))
             s == IF d < 0 THEN -1 ELSE 1
         IN  <<(s * n) \div g, (s * d) \div g>>

R(n, d) == Norm(n, d)

Zero == <<0, 1>>

One == <<1, 1>>

Inf == <<1, 0>>

NaN == <<0, 0>>

\* Python's None for an optional number (a denominator no number has).
None == <<0, -1>>

IsNaN(a) == a = NaN

IsFinite(a) == a[2] > 0

\* The sum over the least common denominator (for finite a and b), which keeps
\* the intermediate integers small; the fraction rules otherwise.
RAdd(a, b) ==
    IF a[2] > 0 /\ b[2] > 0
    THEN LET g == GCD(a[2], b[2])
         IN  Norm(a[1] * (b[2] \div g) + b[1] * (a[2] \div g), (a[2] \div g) * b[2])
    ELSE Norm(a[1] * b[2] + b[1] * a[2], a[2] * b[2])

RNeg(a) == <<-a[1], a[2]>>

RSub(a, b) == RAdd(a, RNeg(b))

\* The product, cancelling across before multiplying (for finite a and b).
RMul(a, b) ==
    IF a[2] > 0 /\ b[2] > 0
    THEN LET g1 == GCD(Abs(a[1]), b[2])
             g2 == GCD(Abs(b[1]), a[2])
         IN  Norm((a[1] \div g1) * (b[1] \div g2), (a[2] \div g2) * (b[2] \div g1))
    ELSE Norm(a[1] * b[1], a[2] * b[2])

\* numpy's array division: x/0 is +-inf, 0/0 is NaN (a warning, no exception).
RDiv(a, b) ==
    IF b[1] < 0 THEN RMul(a, <<-b[2], -b[1]>>)
    ELSE IF b[1] > 0 THEN RMul(a, <<b[2], b[1]>>)
    ELSE Norm(a[1] * b[2], 0)

\* IEEE comparisons: every comparison with NaN is false.
RLt(a, b) ==
    /\ ~IsNaN(a) /\ ~IsNaN(b) /\ a # b
    /\ IF a[2] > 0 /\ b[2] > 0
       THEN LET g == GCD(a[2], b[2])
            IN  a[1] * (b[2] \div g) < b[1] * (a[2] \div g)
       ELSE a[1] * b[2] < b[1] * a[2]

RLe(a, b) == ~IsNaN(a) /\ ~IsNaN(b) /\ (a = b \/ RLt(a, b))

RGt(a, b) == RLt(b, a)

RAbs(a) == <<Abs(a[1]), a[2]>>

\* Python's max(a, b): b if b > a else a.
RMax(a, b) == IF RGt(b, a) THEN b ELSE a

\* numpy's maximum/minimum and clip: NaN propagates.
RClip(x, lo, hi) == IF RLt(x, lo) THEN lo ELSE IF RGt(x, hi) THEN hi ELSE x

RECURSIVE RPow(_, _)
RPow(a, k) == IF k = 0 THEN One ELSE RMul(a, RPow(a, k - 1))

RECURSIVE ISqrtFrom(_, _)
ISqrtFrom(n, k) == IF (k + 1) * (k + 1) > n THEN k ELSE ISqrtFrom(n, k + 1)

\* The square root, exact on the perfect squares the model's inputs produce.
RSqrt(a) == Norm(ISqrtFrom(a[1], 0), ISqrtFrom(a[2], 0))

(***************************************************************************)
(* Vectors (sequences of rationals) and matrices (sequences of rows)       *)
(***************************************************************************)
RECURSIVE RSumTo(_, _)
RSumTo(v, k) == IF k = 0 THEN Zero ELSE RAdd(RSumTo(v, k - 1), v[k])

RSum(v) == RSumTo(v, Len(v))

VScale(v, c) == [i \in 1..Len(v) |-> RMul(v[i], c)]

VDivS(v, c) == [i \in 1..Len(v) |-> RDiv(v[i], c)]

VAdd(u, v) == [i \in 1..Len(u) |-> RAdd(u[i], v[i])]

VSub(u, v) == [i \in 1..Len(u) |-> RSub(u[i], v[i])]

VMul(u, v) == [i \in 1..Len(u) |-> RMul(u[i], v[i])]

Ones(n) == [i \in 1..n |-> One]

Zeros(n) == [i \in 1..n |-> Zero]

\* numpy.argmin: the first index of the smallest entry.
ArgMin(v) ==
    CHOOSE i \in 1..Len(v) :
        /\ \A j \in 1..Len(v) : RLe(v[i], v[j])
        /\ \A j \in 1..(i - 1) : RLt(v[i], v[j])

\* The matrix without row r and column c.
Minor(m, r, c) ==
    [i \in 1..(Len(m) - 1) |->
        [j \in 1..(Len(m) - 1) |->
            m[IF i < r THEN i ELSE i + 1][IF j < c THEN j ELSE j + 1]]]

RECURSIVE Det(_)
Det(m) ==
    IF Len(m) = 1 THEN m[1][1]
    ELSE LET term(j) == RMul(RMul(IF j % 2 = 1 THEN One ELSE RNeg(One), m[1][j]),
                             Det(Minor(m, 1, j)))
         IN  RSum([j \in 1..Len(m) |-> term(j)])

Cofactor(m, i, j) ==
    RMul(IF (i + j) % 2 = 0 THEN One ELSE RNeg(One),
         IF Len(m) = 1 THEN One ELSE Det(Minor(m, i, j)))

\* numpy.linalg.inv of a non-singular square matrix: adj(m) / det(m).
MatInv(m) ==
    [i \in 1..Len(m) |-> [j \in 1..Len(m) |-> RDiv(Cofactor(m, j, i), Det(m))]]

MatVec(m, v) == [i \in 1..Len(m) |-> RSum(VMul(m[i], v))]


(***************************************************************************)
(* data_models: Asset, StrategyConfig, SimulationConfig                    *)
(***************************************************************************)
Asset(name, expected_return, volatility, weight) ==
    [name |-> name, expected_return |-> expected_return,
     volatility |-> volatility, weight |-> weight]

StrategyConfig(name, target_volatility, rebalance_threshold, reversion_speed) ==
    [name |-> name, target_volatility |-> target_volatility,
     rebalance_threshold |-> rebalance_threshold,
     reversion_speed |-> reversion_speed]

StrategyNames ==
    {"fixed", "target_risk", "adaptive", "equal_weight", "risk_parity",
     "min_variance", "momentum", "mean_reversion"}

\* SimulationConfig.normalized_weights
normalized_weights(assets) ==
    LET total == RSum([i \in 1..Len(assets) |-> assets[i].weight])
    IN  [i \in 1..Len(assets) |-> RDiv(assets[i].weight, total)]

\* SimulationConfig._check_assets: at least one asset, positive weight sum.
ValidAssets(assets) ==
    /\ Len(assets) >= 1
    /\ \A i \in 1..Len(assets) :
          /\ RGt(assets[i].volatility, Zero)
          /\ RGt(assets[i].expected_return, RNeg(One))
          /\ RLe(Zero, assets[i].weight)
    /\ RGt(RSum([i \in 1..Len(assets) |-> assets[i].weight]), Zero)

(***************************************************************************)
(* strategies: the eight rebalancing policies                              *)
(***************************************************************************)
\* A raised ValueError, as a result no weight vector equals.
ValueError == <<>>

\* A covariance argument: None, a 0-dimensional array (numpy.cov of a single
\* variable) or a square matrix.
CovNone == [ndim |-> -1, m |-> <<>>]

CovScalar(x) == [ndim |-> 0, m |-> <<<<x>>>>]

CovMatrix(m) == [ndim |-> 2, m |-> m]

\* Strategy._normalize: divide by the sum, then clip to [0, 1].
_normalize(weights) ==
    LET total == RSum(weights)
    IN  IF RLe(total, Zero) THEN ValueError
        ELSE [i \in 1..Len(weights) |-> RClip(RDiv(weights[i], total), Zero, One)]

_asset_vols(assets) == [i \in 1..Len(assets) |-> assets[i].volatility]

\* sqrt(sum((weights * vols) ** 2))
ImpliedVol(weights, vols) ==
    RSqrt(RSum([i \in 1..Len(weights) |->
                   RMul(RMul(weights[i], vols[i]), RMul(weights[i], vols[i]))]))

\* Strategy.__init__ and the subclasses' __init__: the fields of the object.
build_strategy(assets, strategy_config) ==
    LET base == normalized_weights(assets)
        vols == _asset_vols(assets)
    IN  [name |-> strategy_config.name,
         base_weights |-> base,
         asset_vols |-> vols,
         target_volatility |->
             IF strategy_config.target_volatility = None THEN ImpliedVol(base, vols)
             ELSE strategy_config.target_volatility,
         cash_index |-> ArgMin(vols),
         threshold |-> strategy_config.rebalance_threshold,
         reversion_speed |->
             IF strategy_config.reversion_speed = None THEN R(3, 10)
             ELSE strategy_config.reversion_speed]

initialize(self) == self.base_weights

FixedAllocationStrategy_rebalance(self, current_weights, covariance) ==
    self.base_weights

\* A target-risk strategy that scales the weights and renormalizes them
\* without moving the residual to the lowest-volatility asset.
TargetRiskStrategy_rebalance_untilted(self, current_weights, covariance) ==
    LET weights == self.base_weights
        current_vol == ImpliedVol(weights, self.asset_vols)
        scale == RDiv(self.target_volatility, current_vol)
    IN  IF RLe(current_vol, self.target_volatility) THEN weights
        ELSE _normalize(VScale(weights, scale))

TargetRiskStrategy_rebalance(self, current_weights, covariance) ==
    LET weights == self.base_weights
        current_vol == ImpliedVol(weights, self.asset_vols)
        scale == RDiv(self.target_volatility, current_vol)
        scaled == VScale(weights, scale)
        residual == RSub(One, RSum(scaled))
        tilted == IF RGt(residual, Zero)
                  THEN [scaled EXCEPT ![self.cash_index] = RAdd(@, residual)]
                  ELSE scaled
    IN  IF RLe(current_vol, self.target_volatility) THEN weights
        ELSE _normalize(tilted)

\* An adaptive strategy that also snaps back at a deviation equal to the
\* threshold.
AdaptiveRebalanceStrategy_rebalance_inclusive(self, current_weights, covariance) ==
    LET deviation == [i \in 1..Len(current_weights) |->
                         RAbs(RSub(current_weights[i], self.base_weights[i]))]
    IN  IF \E i \in 1..Len(deviation) : ~RLt(deviation[i], self.threshold)
        THEN self.base_weights
        ELSE current_weights

AdaptiveRebalanceStrategy_rebalance(self, current_weights, covariance) ==
    LET deviation == [i \in 1..Len(current_weights) |->
                         RAbs(RSub(current_weights[i], self.base_weights[i]))]
    IN  IF \E i \in 1..Len(deviation) : RGt(deviation[i], self.threshold)
        THEN self.base_weights
        ELSE current_weights

\* An equal-weight strategy that answers with its base weights.
EqualWeightStrategy_rebalance_base(self, current_weights, covariance) ==
    self.base_weights

EqualWeightStrategy_rebalance(self, current_weights, covariance) ==
    LET n == Len(current_weights)
    IN  VDivS(Ones(n), R(n, 1))

\* The 1e-6 floor of the volatilities.
VolFloor == R(1, 1000000)

RiskParityStrategy_rebalance(self, current_weights, covariance) ==
    LET floored == [i \in 1..Len(self.asset_vols) |->
                       IF RLt(self.asset_vols[i], VolFloor) THEN VolFloor
                       ELSE self.asset_vols[i]]
        inv_vols == [i \in 1..Len(floored) |-> RDiv(One, floored[i])]
        weights == VDivS(inv_vols, RSum(inv_vols))
    IN  _normalize(weights)

\* ndarray.size: the number of entries (1 for a 0-dimensional array).
CovSize(covariance) ==
    IF covariance.ndim = 0 THEN 1 ELSE Len(covariance.m) * Len(covariance.m)

\* numpy.linalg.inv raising on an array of fewer than two dimensions only.
LinAlgErrorOnShape(covariance) == covariance.ndim < 2

\* numpy.linalg.inv raises LinAlgError on an array of fewer than two
\* dimensions and on a singular matrix.
LinAlgError(covariance) ==
    \/ covariance.ndim < 2
    \/ Det(covariance.m) = Zero

\* The rule with the covariance itself in the place of its inverse.
MinimumVarianceStrategy_rebalance_uninverted(self, current_weights, covariance) ==
    LET n == Len(current_weights)
        equal == VDivS(Ones(n), R(n, 1))
        raw == MatVec(covariance.m, Ones(Len(covariance.m)))
        weights == VDivS(raw, RSum(raw))
    IN  IF covariance = CovNone \/ CovSize(covariance) = 0 THEN equal
        ELSE IF LinAlgError(covariance) THEN equal
        ELSE _normalize(weights)

MinimumVarianceStrategy_rebalance(self, current_weights, covariance) ==
    LET n == Len(current_weights)
        equal == VDivS(Ones(n), R(n, 1))
        inv_cov == MatInv(covariance.m)
        raw == MatVec(inv_cov, Ones(Len(covariance.m)))
        weights == VDivS(raw, RSum(raw))
    IN  IF covariance = CovNone \/ CovSize(covariance) = 0 THEN equal
        ELSE IF LinAlgError(covariance) THEN equal
        ELSE _normalize(weights)

MomentumStrategy_rebalance(self, current_weights, covariance) ==
    _normalize(self.base_weights)

\* A mean-reversion strategy that snaps to the base weights at once.
MeanReversionStrategy_rebalance_snap(self, current_weights, covariance) ==
    _normalize(self.base_weights)

MeanReversionStrategy_rebalance(self, current_weights, covariance) ==
    LET deviation == VSub(self.base_weights, current_weights)
        new_weights == VAdd(current_weights, VScale(deviation, self.reversion_speed))
    IN  _normalize(new_weights)

\* initialize() returns base_weights.copy(): a fresh array.
initialize_returns(self) == "fresh"

\* A fixed strategy handing out its own base_weights array.
rebalance_returns_own(self, current_weights, covariance) ==
    IF self.name = "fixed" THEN "own" ELSE "fresh"

\* Which array rebalance returns: every class returns a copy of base_weights
\* or a newly computed array, except that the adaptive strategy returns its
\* argument when no deviation exceeds the threshold.
rebalance_returns(self, current_weights, covariance) ==
    IF /\ self.name = "adaptive"
       /\ \A i \in 1..Len(current_weights) :
              ~RGt(RAbs(RSub(current_weights[i], self.base_weights[i])),
                   self.threshold)
    THEN "argument"
    ELSE "fresh"

\* Strategy.rebalance, dispatched on the class build_strategy chose.
rebalance(self, current_weights, covariance) ==
    CASE self.name = "fixed" ->
             FixedAllocationStrategy_rebalance(self, current_weights, covariance)
      [] self.name = "target_risk" ->
             TargetRiskStrategy_rebalance(self, current_weights, covariance)
      [] self.name = "adaptive" ->
             AdaptiveRebalanceStrategy_rebalance(self, current_weights, covariance)
      [] self.name = "equal_weight" ->
             EqualWeightStrategy_rebalance(self, current_weights, covariance)
      [] self.name = "risk_parity" ->
             RiskParityStrategy_rebalance(self, current_weights, covariance)
      [] self.name = "min_variance" ->
             MinimumVarianceStrategy_rebalance(self, current_weights, covariance)
      [] self.name = "momentum" ->
             MomentumStrategy_rebalance(self, current_weights, covariance)
      [] self.name = "mean_reversion" ->
             MeanReversionStrategy_rebalance(self, current_weights, covariance)

(***************************************************************************)
(* A strategy object under a sequence of initialize/rebalance calls        *)
(***************************************************************************)
\* The longest call sequence explored.
MaxCalls == 2

Idle == [name |-> "idle"]

NoCall == [op |-> "none", current_weights |-> <<>>, covariance |-> CovNone]

\* Asset lists of one, two and three assets (volatility in units of sqrt(3),
\* chosen so that the implied volatility is a rational number).
StrategyAssetLists ==
    { <<Asset("A", Zero, R(1, 10), One)>>,
      <<Asset("A", Zero, R(3, 10), One), Asset("B", Zero, R(4, 10), One)>>,
      <<Asset("A", Zero, R(4, 10), R(1, 1)), Asset("B", Zero, R(1, 10), R(3, 1))>>,
      <<Asset("A", Zero, R(2, 10), One), Asset("B", Zero, R(1, 10), One),
        Asset("C", Zero, R(2, 10), One)>> }

StrategyConfigs ==
    { StrategyConfig(n, None, R(1, 20), None) :
          n \in StrategyNames \ {"target_risk", "adaptive", "mean_reversion"} }
    \cup { StrategyConfig("target_risk", tv, R(1, 20), None) :
               tv \in {None, R(1, 20), One} }
    \cup { StrategyConfig("adaptive", None, th, None) :
               th \in {Zero, R(1, 20), R(1, 10), R(1, 2)} }
    \cup { StrategyConfig("mean_reversion", None, R(1, 20), speed) :
               speed \in {None, Zero, R(1, 2), One} }

\* Realized weight vectors of a portfolio of positive value: non-negative,
\* summing to 1.
CurrentWeightInputs(n) ==
    CASE n = 1 -> { <<One>> }
      [] n = 2 -> { <<R(1, 2), R(1, 2)>>, <<R(3, 4), R(1, 4)>>, <<One, Zero>>,
                    <<R(2, 5), R(3, 5)>> }
      [] n = 3 -> { <<R(1, 3), R(1, 3), R(1, 3)>>, <<R(1, 2), R(1, 4), R(1, 4)>>,
                    <<Zero, R(1, 2), R(1, 2)>> }

IntMatrix(rows) ==
    [i \in 1..Len(rows) |-> [j \in 1..Len(rows[i]) |-> R(rows[i][j], 1)]]

\* Sample covariances (symmetric, positive semi-definite), None, an empty
\* array, and the 0-dimensional covariance of a single asset.
CovarianceInputs(n) ==
    CASE n = 1 -> { CovNone, CovMatrix(<<>>), CovScalar(R(1, 100)) }
      [] n = 2 -> { CovNone, CovMatrix(<<>>),
                    CovMatrix(<<<<R(4, 100), Zero>>, <<Zero, R(1, 100)>>>>),
                    CovMatrix(IntMatrix(<<<<4, 0>>, <<0, 1>>>>)),
                    CovMatrix(IntMatrix(<<<<1, 1>>, <<1, 1>>>>)),
                    CovMatrix(IntMatrix(<<<<5, 3>>, <<3, 2>>>>)) }
      [] n = 3 -> { CovNone,
                    CovMatrix(IntMatrix(<<<<4, 0, 0>>, <<0, 2, 0>>, <<0, 0, 1>>>>)),
                    CovMatrix(IntMatrix(<<<<0, 0, 0>>, <<0, 0, 0>>, <<0, 0, 0>>>>)),
                    CovMatrix(IntMatrix(<<<<5, 3, 0>>, <<3, 2, 0>>, <<0, 0, 1>>>>)) }

StrategyIdle ==
    /\ strategy = Idle
    /\ lastCall = NoCall
    /\ returned = <<>>
    /\ returnedIs = "none"
    /\ configured = <<>>
    /\ numCalls = 0

\* build_strategy(config)
StrategyInit ==
    /\ \E assets \in StrategyAssetLists, sc \in StrategyConfigs :
          /\ ValidAssets(assets)
          /\ strategy = build_strategy(assets, sc)
          /\ configured = normalized_weights(assets)
    /\ lastCall = NoCall
    /\ returned = <<>>
    /\ returnedIs = "none"
    /\ numCalls = 0

IsWeightVector(w) ==
    /\ w # ValueError
    /\ \A i \in 1..Len(w) : RLe(Zero, w[i])
    /\ RSum(w) = One

\* The weights a caller passes: realized weights, among them the weights the
\* previous rebalance returned (what a portfolio holds until returns move it).
RebalanceInputs(n) ==
    CurrentWeightInputs(n)
        \cup (IF lastCall.op = "rebalance" /\ IsWeightVector(returned)
              THEN {returned} ELSE {})

\* strategy.initialize()
Initialize ==
    /\ strategy # Idle
    /\ numCalls < MaxCalls
    /\ lastCall' = [NoCall EXCEPT !.op = "initialize"]
    /\ returned' = initialize(strategy)
    /\ returnedIs' = initialize_returns(strategy)
    /\ numCalls' = numCalls + 1
    /\ UNCHANGED <<strategy, configured, notStrategy>>

\* strategy.rebalance(current_weights, covariance=covariance)
Rebalance ==
    /\ strategy # Idle
    /\ numCalls < MaxCalls
    /\ \E cw \in RebalanceInputs(Len(strategy.base_weights)),
          cov \in CovarianceInputs(Len(strategy.base_weights)) :
          /\ lastCall' = [op |-> "rebalance", current_weights |-> cw,
                          covariance |-> cov]
          /\ returned' = rebalance(strategy, cw, cov)
          /\ returnedIs' = IF rebalance(strategy, cw, cov) = ValueError THEN "none"
                           ELSE rebalance_returns(strategy, cw, cov)
    /\ numCalls' = numCalls + 1
    /\ UNCHANGED <<strategy, configured, notStrategy>>

\* The caller writes into the array the last call returned (weights *= 0):
\* the strategy's own array changes with it when that is the one returned.
CallerWrites ==
    /\ strategy # Idle
    /\ returnedIs # "none"
    /\ lastCall' = [lastCall EXCEPT !.op = "write"]
    /\ returned' = Zeros(Len(returned))
    /\ returnedIs' = "none"
    /\ strategy' = IF returnedIs = "own"
                   THEN [strategy EXCEPT !.base_weights = Zeros(Len(returned))]
                   ELSE strategy
    /\ UNCHANGED <<configured, numCalls, notStrategy>>

StrategyNext == Initialize \/ Rebalance \/ CallerWrites

\* C1: for every strategy variant, every realized weight vector and every
\* covariance, the vector rebalance() returns has no negative component and
\* sums to 1.
C1_RebalanceReturnsWeights ==
    lastCall.op = "rebalance" => IsWeightVector(returned)

EqualWeights(n) == [i \in 1..n |-> R(1, n)]

\* The covariance is None, empty, or cannot be inverted.
DegenerateCovariance(covariance) ==
    \/ covariance = CovNone
    \/ CovSize(covariance) = 0
    \/ covariance.ndim < 2
    \/ Det(covariance.m) = Zero

\* C12: MinimumVarianceStrategy.rebalance raises nothing and returns finite
\* numbers, one per asset, for every covariance; for a covariance that is
\* None, empty or not invertible it returns 1/N in every component.
C12_MinimumVarianceNeverRaises ==
    (lastCall.op = "rebalance" /\ strategy.name = "min_variance") =>
        /\ returned # ValueError
        /\ Len(returned) = Len(lastCall.current_weights)
        /\ \A i \in 1..Len(returned) : IsFinite(returned[i])
        /\ DegenerateCovariance(lastCall.covariance) =>
               returned = EqualWeights(Len(lastCall.current_weights))

\* A singular covariance of two assets was answered with equal weights.
C12_Witness ==
    /\ lastCall.op = "rebalance"
    /\ strategy.name = "min_variance"
    /\ lastCall.covariance.ndim = 2
    /\ Len(lastCall.covariance.m) = 2
    /\ Det(lastCall.covariance.m) = Zero
    /\ returned = <<R(1, 2), R(1, 2)>>

\* A square matrix whose entries off the diagonal are 0 and whose diagonal
\* is positive.
IsPositiveDiagonal(covariance) ==
    /\ covariance.ndim = 2
    /\ Len(covariance.m) >= 1
    /\ \A i, j \in 1..Len(covariance.m) :
           IF i = j THEN RGt(covariance.m[i][j], Zero)
           ELSE covariance.m[i][j] = Zero

\* 1/variance of every asset, divided by the sum of these.
InverseVarianceWeights(m) ==
    LET inv == [i \in 1..Len(m) |-> RDiv(One, m[i][i])]
    IN  VDivS(inv, RSum(inv))

\* C15: for a diagonal covariance with positive variances,
\* MinimumVarianceStrategy.rebalance returns the weights proportional to
\* 1/variance that sum to 1, whatever the current weights.
C15_InverseVarianceWeights ==
    (/\ lastCall.op = "rebalance"
     /\ strategy.name = "min_variance"
     /\ IsPositiveDiagonal(lastCall.covariance)) =>
        returned = InverseVarianceWeights(lastCall.covariance.m)

\* The covariance [[0.04, 0], [0, 0.01]] was answered with [0.2, 0.8] at
\* current weights other than these.
C15_Witness ==
    /\ lastCall.op = "rebalance"
    /\ strategy.name = "min_variance"
    /\ lastCall.covariance =
           CovMatrix(<<<<R(4, 100), Zero>>, <<Zero, R(1, 100)>>>>)
    /\ lastCall.current_weights = <<R(3, 4), R(1, 4)>>
    /\ returned = <<R(1, 5), R(4, 5)>>

\* C17: a fixed strategy's stored base weights stay the normalized weights
\* of its configuration whatever was called and written before, and its
\* rebalance returns them for every argument.
C17_FixedReturnsBaseWeights ==
    (strategy # Idle /\ strategy.name = "fixed") =>
        /\ strategy.base_weights = configured
        /\ lastCall.op = "rebalance" => returned = configured

\* A fixed strategy of two unequal weights answered a second rebalance, after
\* the caller had overwritten the array of the first, with its base weights.
C17_Witness ==
    /\ strategy # Idle
    /\ strategy.name = "fixed"
    /\ numCalls = 2
    /\ lastCall.op = "rebalance"
    /\ lastCall.current_weights = <<One, Zero>>
    /\ returned = <<R(1, 4), R(3, 4)>>

\* C18: an equal-weight strategy's rebalance returns 1/N in each of the N
\* components of its input, whatever the base weights and the covariance.
C18_EqualWeightReturnsUniform ==
    (/\ strategy # Idle
     /\ strategy.name = "equal_weight"
     /\ lastCall.op = "rebalance") =>
        /\ Len(returned) = Len(lastCall.current_weights)
        /\ \A i \in 1..Len(returned) :
               returned[i] = R(1, Len(lastCall.current_weights))

\* An equal-weight strategy of base weights 1/4 and 3/4 was given the
\* weights 1, 0 and a covariance matrix, and answered 1/2, 1/2.
C18_Witness ==
    /\ strategy # Idle
    /\ strategy.name = "equal_weight"
    /\ strategy.base_weights = <<R(1, 4), R(3, 4)>>
    /\ lastCall.op = "rebalance"
    /\ lastCall.current_weights = <<One, Zero>>
    /\ lastCall.covariance # CovNone
    /\ CovSize(lastCall.covariance) > 0
    /\ returned = <<R(1, 2), R(1, 2)>>

\* Some asset's weight is further from its base weight than the threshold.
DeviatesBeyond(current_weights, base_weights, threshold) ==
    \E i \in 1..Len(current_weights) :
        \/ RGt(RSub(current_weights[i], base_weights[i]), threshold)
        \/ RGt(RSub(base_weights[i], current_weights[i]), threshold)

\* C23: an adaptive strategy's rebalance returns the base weights when some
\* asset's absolute deviation from base is strictly greater than the
\* threshold, and otherwise returns current_weights as given.
C23_AdaptiveSnapsOrPasses ==
    (/\ strategy # Idle
     /\ strategy.name = "adaptive"
     /\ lastCall.op = "rebalance") =>
        returned =
            (IF DeviatesBeyond(lastCall.current_weights, strategy.base_weights,
                               strategy.threshold)
             THEN strategy.base_weights
             ELSE lastCall.current_weights)

\* With threshold 0.1 and three equal base weights, the weights 1/2, 1/4, 1/4
\* (one deviation of 1/6 above the threshold, two of 1/12 below it) were
\* answered with the base weights.
C23_Witness ==
    /\ strategy # Idle
    /\ strategy.name = "adaptive"
    /\ lastCall.op = "rebalance"
    /\ strategy.threshold = R(1, 10)
    /\ lastCall.current_weights = <<R(1, 2), R(1, 4), R(1, 4)>>
    /\ returned = <<R(1, 3), R(1, 3), R(1, 3)>>

\* base * s with 1 - s added to the asset at index cash.
ScaledTowardCash(base_weights, s, cash) ==
    [i \in 1..Len(base_weights) |->
        IF i = cash THEN RAdd(RMul(base_weights[i], s), RSub(One, s))
        ELSE RMul(base_weights[i], s)]

\* Asset i has the lowest volatility.
LowestVolatility(vols, i) == \A j \in 1..Len(vols) : RLe(vols[i], vols[j])

\* C24: a target-risk strategy's rebalance returns the base weights when their
\* implied volatility is at or below the target (the target being that
\* volatility itself when none is configured); otherwise, with
\* s = target / implied volatility, it returns base * s with 1 - s added to a
\* lowest-volatility asset. Either way the answer is fixed by the strategy
\* alone, whatever current_weights is.
C24_TargetRiskScalesTowardCash ==
    (/\ strategy # Idle
     /\ strategy.name = "target_risk"
     /\ lastCall.op = "rebalance") =>
        LET current == ImpliedVol(strategy.base_weights, strategy.asset_vols)
        IN  /\ LowestVolatility(strategy.asset_vols, strategy.cash_index)
            /\ returned =
                  (IF RLe(current, strategy.target_volatility)
                   THEN strategy.base_weights
                   ELSE ScaledTowardCash(strategy.base_weights,
                                         RDiv(strategy.target_volatility, current),
                                         strategy.cash_index))

\* Base weights 1/4, 3/4 with volatilities 0.4, 0.1 (implied volatility 1/8)
\* and target 0.05 (s = 2/5) were answered, at current weights 1, 0, with
\* 1/10 and 3/10 + 3/5.
C24_Witness ==
    /\ strategy # Idle
    /\ strategy.name = "target_risk"
    /\ lastCall.op = "rebalance"
    /\ strategy.base_weights = <<R(1, 4), R(3, 4)>>
    /\ strategy.target_volatility = R(1, 20)
    /\ lastCall.current_weights = <<One, Zero>>
    /\ returned = <<R(1, 10), R(9, 10)>>

\* x lies between a and b (either order), ends included.
Between(x, a, b) ==
    \/ RLe(a, x) /\ RLe(x, b)
    \/ RLe(b, x) /\ RLe(x, a)

\* C25: for current weights that are non-negative and sum to 1, a
\* mean-reversion strategy's rebalance returns
\* current + (base - current) * reversion_speed: each asset's deviation from
\* base is the old deviation times (1 - reversion_speed), and each new weight
\* lies between the current weight and the base weight (no overshoot), also
\* when the weights given are those the previous rebalance returned.
C25_MeanReversionPullsTowardBase ==
    (/\ strategy # Idle
     /\ strategy.name = "mean_reversion"
     /\ lastCall.op = "rebalance"
     /\ IsWeightVector(lastCall.current_weights)) =>
        /\ Len(returned) = Len(lastCall.current_weights)
        /\ \A i \in 1..Len(returned) :
              LET current == lastCall.current_weights[i]
                  base == strategy.base_weights[i]
                  speed == strategy.reversion_speed
              IN  /\ returned[i] = RAdd(current, RMul(RSub(base, current), speed))
                  /\ RSub(returned[i], base) =
                         RMul(RSub(One, speed), RSub(current, base))
                  /\ Between(returned[i], current, base)
                  /\ speed = Zero => returned[i] = current
                  /\ speed = One => returned[i] = base

\* With base 1/4, 3/4 and speed 1/2, the weights 5/8, 3/8 that a first
\* rebalance returned for 1, 0 were answered with 7/16, 9/16.
C25_Witness ==
    /\ strategy # Idle
    /\ strategy.name = "mean_reversion"
    /\ strategy.reversion_speed = R(1, 2)
    /\ strategy.base_weights = <<R(1, 4), R(3, 4)>>
    /\ numCalls = 2
    /\ lastCall.op = "rebalance"
    /\ lastCall.current_weights = <<R(5, 8), R(3, 8)>>
    /\ returned = <<R(7, 16), R(9, 16)>>

(***************************************************************************)
(* option_simulator: OptionMarginSimulator                                  *)
(***************************************************************************)
\* The longest horizon (n_days) and the largest batch (num_paths) explored.
MaxDays == 2

MaxPaths == 2

\* The values a standard-normal draw takes in the model.
ZDraws == {-2, 0, 2}

\* liquidation_day = None
NoDay == -1

NoResult == [done |-> FALSE]

NoLocals == [t |-> 0]

CeilDiv(a, b) == (a + b - 1) \div b

\* Python's max(x, floor) for a small positive constant floor = 1/D.
FloorAt(x, floor) ==
    IF IsFinite(x) /\ (x[1] <= 0 \/ CeilDiv(x[2], x[1]) > floor[2]) THEN floor ELSE x

SpotFloor == R(1, 1000000)

MarginFloor == R(1, 100000000)

\* OptionMarginSimulator.__init__
OptionMarginSimulator(option_type, position_side, strike, contract_size, spot0, time_value, days_to_maturity, scan_risk_factor, min_margin_factor, maintenance_margin_rate, daily_return_mean, daily_return_vol, reference_equity) ==
    [name |-> "OptionMarginSimulator",
     option_type |-> option_type,
     position_side |-> position_side,
     strike |-> strike,
     contract_size |-> contract_size,
     spot0 |-> FloorAt(spot0, SpotFloor),
     time_value |-> time_value,
     days_to_maturity |-> days_to_maturity,
     scan_risk_factor |-> scan_risk_factor,
     min_margin_factor |-> min_margin_factor,
     maintenance_margin_rate |-> maintenance_margin_rate,
     daily_return_mean |-> daily_return_mean,
     daily_return_vol |-> daily_return_vol,
     reference_equity |-> reference_equity]

\* bs_price as _option_price calls it (remaining time floored at 1e-9 years).
\* With no time left the Black-Scholes value is the intrinsic value; before
\* expiry the transcendental part is abstracted to a time value proportional
\* to the days left (time_value per day, a parameter of the model).
bs_price(self, spot, days_remaining) ==
    LET intrinsic == IF self.option_type = "call"
                     THEN RMax(RSub(spot, self.strike), Zero)
                     ELSE RMax(RSub(self.strike, spot), Zero)
    IN  IF days_remaining <= 0 THEN intrinsic
        ELSE RAdd(intrinsic, RMul(self.time_value, R(days_remaining, 1)))

_option_price(self, spot, days_remaining) == bs_price(self, spot, days_remaining)

_margin_requirements(self, premium, spot) ==
    LET otm == IF self.option_type = "call"
               THEN RMax(RSub(self.strike, spot), Zero)
               ELSE RMax(RSub(spot, self.strike), Zero)
        scan_part == RSub(RAdd(premium, RMul(self.scan_risk_factor, spot)), otm)
        min_part == RAdd(premium, RMul(self.min_margin_factor, spot))
        margin_per_unit == RMax(RMax(scan_part, min_part), Zero)
    IN  RMul(margin_per_unit, self.contract_size)

\* multiplier = 1 if self.position_side == "Long" else -1
Multiplier(self) == IF self.position_side = "Long" THEN One ELSE RNeg(One)

\* rng.normal(daily_return_mean, daily_return_vol) for the standard draw z
NormalReturn(self, z) ==
    RAdd(self.daily_return_mean, RMul(self.daily_return_vol, R(z, 1)))

\* The spot loop: spot[t] = max(spot[t-1] * (1 + rtn), 1e-6), from spot0.
SpotPath(self, n, zs) ==
    LET path[t \in 0..n] ==
            IF t = 0 THEN self.spot0
            ELSE FloorAt(RMul(path[t - 1], RAdd(One, NormalReturn(self, zs[t]))),
                         SpotFloor)
    IN  path

PricePath(self, n, spot_path) ==
    [t \in 0..n |-> _option_price(self, spot_path[t], self.days_to_maturity - t)]

\* The n draws a generator seeded with sim.seed gives from position offset+1
\* on: those already known are read, the others are new.
ConsistentDraws(zs, n, offset) ==
    \A k \in 1..n : offset + k <= Len(rngStream) => zs[k] = rngStream[offset + k]

ExtendedStream(zs, n, offset) ==
    [k \in 1..(IF offset + n > Len(rngStream) THEN offset + n ELSE Len(rngStream)) |->
        IF k <= Len(rngStream) THEN rngStream[k] ELSE zs[k - offset]]

\* x[t:] = x[t]
FreezeFrom(path, t) ==
    [s \in DOMAIN path |-> IF s >= t THEN path[t] ELSE path[s]]

\* equity / max(margin, 1e-8) if margin > 0 else inf
MarginRatio(equity, margin) ==
    IF RGt(margin, Zero) THEN RDiv(equity, FloorAt(margin, MarginFloor)) ELSE Inf

\* run_single_path up to its liquidation loop: the locals after the spot loop
\* and the price/margin loop, for the draws zs.
run_single_path_setup(self, n, zs) ==
    LET spot_path == SpotPath(self, n, zs)
        option_price_path == PricePath(self, n, spot_path)
    IN  [n |-> n, t |-> 1, looping |-> TRUE,
         spot_path |-> spot_path,
         option_price_path |-> option_price_path,
         margin_path |->
             [t \in 0..n |->
                 IF self.position_side = "Short"
                 THEN _margin_requirements(self, option_price_path[t], spot_path[t])
                 ELSE Zero],
         equity_path |-> [t \in 0..n |-> IF t = 0 THEN self.reference_equity ELSE Zero],
         margin_ratio_path |-> [t \in 0..n |-> NaN],
         liquidation_day |-> NoDay]

\* One iteration (t = loc.t) of run_single_path's liquidation loop, without
\* the break.
run_single_path_body(self, loc) ==
    LET t == loc.t
        pnl_option == RMul(RMul(RSub(loc.option_price_path[t],
                                     loc.option_price_path[t - 1]),
                                self.contract_size), Multiplier(self))
        equity_t == RAdd(loc.equity_path[t - 1], pnl_option)
        equity1 == [loc.equity_path EXCEPT ![t] = equity_t]
        ratio_t == MarginRatio(equity_t, loc.margin_path[t])
        ratio1 == [loc.margin_ratio_path EXCEPT ![t] = ratio_t]
        liquidate == /\ loc.liquidation_day = NoDay
                     /\ RGt(loc.margin_path[t], Zero)
                     /\ RLt(ratio_t, self.maintenance_margin_rate)
    IN  IF self.position_side = "Short"
        THEN IF liquidate
             THEN [loc EXCEPT !.liquidation_day = t,
                              !.equity_path = FreezeFrom(equity1, t),
                              !.margin_path = FreezeFrom(loc.margin_path, t),
                              !.margin_ratio_path = FreezeFrom(ratio1, t),
                              !.looping = FALSE]
             ELSE [loc EXCEPT !.equity_path = equity1,
                              !.margin_ratio_path = ratio1]
        ELSE [loc EXCEPT !.equity_path = equity1,
                         !.margin_ratio_path = [@ EXCEPT ![t] = NaN]]

\* The loop iteration without its break: the loop goes on after a liquidation.
run_single_path_step_no_break(self, loc) ==
    LET after == run_single_path_body(self, loc)
    IN  IF loc.t = loc.n
        THEN [after EXCEPT !.looping = FALSE]
        ELSE [after EXCEPT !.t = loc.t + 1, !.looping = TRUE]

\* One iteration of the loop "for t in range(1, steps + 1)" with its break.
run_single_path_step(self, loc) ==
    LET after == run_single_path_body(self, loc)
    IN  IF ~after.looping \/ loc.t = loc.n
        THEN [after EXCEPT !.looping = FALSE]
        ELSE [after EXCEPT !.t = loc.t + 1]

\* The lines after the loop and the returned dict.
run_single_path_result(self, loc) ==
    [done |-> TRUE, n |-> loc.n,
     spot_path |-> loc.spot_path,
     option_price_path |-> loc.option_price_path,
     equity_path |-> loc.equity_path,
     margin_path |-> loc.margin_path,
     margin_ratio_path |->
         IF /\ self.position_side = "Short"
            /\ IsNaN(loc.margin_ratio_path[0])
            /\ RGt(loc.margin_path[0], Zero)
         THEN [loc.margin_ratio_path EXCEPT
                  ![0] = RDiv(loc.equity_path[0], FloorAt(loc.margin_path[0], MarginFloor))]
         ELSE loc.margin_ratio_path,
     liquidation_day |-> loc.liquidation_day]

\* run_monte_carlo: the allocations before the loop over the paths.
run_monte_carlo_setup(self, num_paths, n_days) ==
    [T |-> n_days, n |-> num_paths, j |-> 1, t |-> 1, phase |-> "path_start",
     spot_paths |-> [j \in 1..num_paths |->
                        [t \in 0..n_days |-> IF t = 0 THEN self.spot0 ELSE Zero]],
     option_price_paths |-> [j \in 1..num_paths |-> [t \in 0..n_days |-> Zero]],
     equity_paths |-> [j \in 1..num_paths |->
                          [t \in 0..n_days |->
                              IF t = 0 THEN self.reference_equity ELSE Zero]],
     margin_paths |-> [j \in 1..num_paths |-> [t \in 0..n_days |-> Zero]],
     margin_ratio_paths |-> [j \in 1..num_paths |-> [t \in 0..n_days |-> Inf]],
     liquidation_days |-> [j \in 1..num_paths |-> n_days],
     liquidation_day |-> n_days,
     liquidated |-> {}]

\* Path j's spot loop and price loop, for the draws zs; liquidation_day = T.
run_monte_carlo_path_setup(self, loc, zs) ==
    LET spot_path == SpotPath(self, loc.T, zs)
    IN  [loc EXCEPT !.spot_paths[loc.j] = spot_path,
                    !.option_price_paths[loc.j] = PricePath(self, loc.T, spot_path),
                    !.liquidation_day = loc.T,
                    !.t = 1,
                    !.phase = "steps"]

\* x[j, t + 1:] = x[j, t]
FreezeAfter(path, t) ==
    [s \in DOMAIN path |-> IF s >= t + 1 THEN path[t] ELSE path[s]]

\* One iteration (j = loc.j, t = loc.t) of run_monte_carlo's liquidation loop.
\* "liquidated" records the paths on which the liquidation branch was taken.
run_monte_carlo_step(self, loc) ==
    LET j == loc.j
        t == loc.t
        pnl_option == RMul(RMul(RSub(loc.option_price_paths[j][t],
                                     loc.option_price_paths[j][t - 1]),
                                self.contract_size), Multiplier(self))
        equity_t == RAdd(loc.equity_paths[j][t - 1], pnl_option)
        equity1 == [loc.equity_paths[j] EXCEPT ![t] = equity_t]
        margin_t == _margin_requirements(self, loc.option_price_paths[j][t],
                                         loc.spot_paths[j][t])
        margin1 == [loc.margin_paths[j] EXCEPT ![t] = margin_t]
        ratio_t == MarginRatio(equity_t, margin_t)
        ratio1 == [loc.margin_ratio_paths[j] EXCEPT ![t] = ratio_t]
        liquidate == /\ loc.liquidation_day = loc.T
                     /\ RGt(margin_t, Zero)
                     /\ RLt(ratio_t, self.maintenance_margin_rate)
        next == IF t = loc.T THEN [loc EXCEPT !.phase = "path_end"]
                ELSE [loc EXCEPT !.t = t + 1]
    IN  IF self.position_side = "Short"
        THEN IF liquidate
             THEN [loc EXCEPT !.liquidation_day = t,
                              !.equity_paths[j] = FreezeAfter(equity1, t),
                              !.margin_paths[j] = FreezeAfter(margin1, t),
                              !.margin_ratio_paths[j] = FreezeAfter(ratio1, t),
                              !.liquidated = @ \cup {j},
                              !.phase = "path_end"]
             ELSE [next EXCEPT !.equity_paths[j] = equity1,
                               !.margin_paths[j] = margin1,
                               !.margin_ratio_paths[j] = ratio1]
        ELSE [next EXCEPT !.equity_paths[j] = equity1,
                          !.margin_paths[j] = [@ EXCEPT ![t] = Zero],
                          !.margin_ratio_paths[j] = [@ EXCEPT ![t] = Inf]]

\* liquidation_days[j] = liquidation_day, and on to the next path.
run_monte_carlo_path_end(loc) ==
    [loc EXCEPT !.liquidation_days[loc.j] = loc.liquidation_day,
                !.j = loc.j + 1,
                !.phase = IF loc.j < loc.n THEN "path_start" ELSE "return"]

run_monte_carlo_result(loc) ==
    [done |-> TRUE, T |-> loc.T, n |-> loc.n,
     spot_paths |-> loc.spot_paths,
     option_price_paths |-> loc.option_price_paths,
     equity_paths |-> loc.equity_paths,
     margin_paths |-> loc.margin_paths,
     margin_ratio_paths |-> loc.margin_ratio_paths,
     liquidation_days |-> loc.liquidation_days,
     liquidated |-> loc.liquidated]

\* The simulators explored: a call or a put struck at the money, long or
\* short in the spelling of the select box ("Long", "Short") and in that of
\* the option legs ("long", "short"), with and without time value, with the
\* usual margin factors and with none, thinly and well funded.
OptionSimulators ==
    { OptionMarginSimulator(ot, side, R(100, 1), One, R(100, 1), tv, 2,
                            f[1], f[2], One, Zero, R(1, 10), eq) :
          ot \in {"call", "put"},
          side \in {"Long", "Short", "long", "short"},
          tv \in {Zero, One},
          f \in {<<R(1, 10), R(1, 20)>>, <<Zero, Zero>>},
          eq \in {R(5, 1), R(20, 1)} }

OptionIdle ==
    /\ sim = Idle
    /\ rngStream = <<>>
    /\ optPc = "ready"
    /\ sp = NoLocals
    /\ single = NoResult
    /\ mp = NoLocals
    /\ mc = NoResult

OptionInit ==
    /\ sim \in OptionSimulators
    /\ rngStream = <<>>
    /\ optPc = "ready"
    /\ sp = NoLocals
    /\ single = NoResult
    /\ mp = NoLocals
    /\ mc = NoResult

\* run_single_path(n_days) is called: rng = self._rng(), the allocations, the
\* spot loop and the price/margin loop.
SingleStart ==
    /\ sim # Idle
    /\ optPc = "ready"
    /\ ~single.done
    /\ \E n \in 1..MaxDays :
          \E zs \in [1..n -> ZDraws] :
              /\ ConsistentDraws(zs, n, 0)
              /\ rngStream' = ExtendedStream(zs, n, 0)
              /\ sp' = run_single_path_setup(sim, n, zs)
    /\ optPc' = "single"
    /\ UNCHANGED <<sim, single, mp, mc, notOption>>

\* One iteration of run_single_path's liquidation loop.
SingleStep ==
    /\ optPc = "single"
    /\ sp.looping
    /\ sp' = run_single_path_step(sim, sp)
    /\ UNCHANGED <<sim, rngStream, optPc, single, mp, mc, notOption>>

\* run_single_path returns.
SingleReturn ==
    /\ optPc = "single"
    /\ ~sp.looping
    /\ single' = run_single_path_result(sim, sp)
    /\ sp' = NoLocals
    /\ optPc' = "ready"
    /\ UNCHANGED <<sim, rngStream, mp, mc, notOption>>

\* run_monte_carlo(num_paths, n_days) is called.
McStart ==
    /\ sim # Idle
    /\ optPc = "ready"
    /\ ~mc.done
    /\ \E num_paths \in 1..MaxPaths, n_days \in 1..MaxDays :
          mp' = run_monte_carlo_setup(sim, num_paths, n_days)
    /\ optPc' = "mc"
    /\ UNCHANGED <<sim, rngStream, sp, single, mc, notOption>>

\* Path j begins: its draws follow those of the paths before it.
McPathStart ==
    /\ optPc = "mc"
    /\ mp.phase = "path_start"
    /\ \E zs \in [1..mp.T -> ZDraws] :
          /\ ConsistentDraws(zs, mp.T, (mp.j - 1) * mp.T)
          /\ rngStream' = ExtendedStream(zs, mp.T, (mp.j - 1) * mp.T)
          /\ mp' = run_monte_carlo_path_setup(sim, mp, zs)
    /\ UNCHANGED <<sim, optPc, sp, single, mc, notOption>>

McStep ==
    /\ optPc = "mc"
    /\ mp.phase = "steps"
    /\ mp' = run_monte_carlo_step(sim, mp)
    /\ UNCHANGED <<sim, rngStream, optPc, sp, single, mc, notOption>>

McPathEnd ==
    /\ optPc = "mc"
    /\ mp.phase = "path_end"
    /\ mp' = run_monte_carlo_path_end(mp)
    /\ UNCHANGED <<sim, rngStream, optPc, sp, single, mc, notOption>>

\* run_monte_carlo returns.
McReturn ==
    /\ optPc = "mc"
    /\ mp.phase = "return"
    /\ mc' = run_monte_carlo_result(mp)
    /\ mp' = NoLocals
    /\ optPc' = "ready"
    /\ UNCHANGED <<sim, rngStream, sp, single, notOption>>

OptionNext ==
    \/ SingleStart
    \/ SingleStep
    \/ SingleReturn
    \/ McStart
    \/ McPathStart
    \/ McStep
    \/ McPathEnd
    \/ McReturn

(***************************************************************************)
(* Claims about the option margin simulator                                *)
(***************************************************************************)
\* At step t the reported margin is positive and equity/margin is below the
\* maintenance margin rate.
Breach(equity_path, margin_path, t) ==
    /\ RGt(margin_path[t], Zero)
    /\ RLt(RDiv(equity_path[t], margin_path[t]), sim.maintenance_margin_rate)

FirstBreach(equity_path, margin_path, t, from) ==
    /\ Breach(equity_path, margin_path, t)
    /\ \A s \in from..(t - 1) : ~Breach(equity_path, margin_path, s)

FrozenAfter(equity_path, margin_path, margin_ratio_path, t, n) ==
    \A s \in (t + 1)..n :
        /\ equity_path[s] = equity_path[t]
        /\ margin_path[s] = margin_path[t]
        /\ margin_ratio_path[s] = margin_ratio_path[t]

LiquidatedAndFrozen(from) ==
    /\ (single.done /\ sim.position_side = "Short") =>
          \A t \in from..single.n :
              FirstBreach(single.equity_path, single.margin_path, t, from) =>
                  /\ single.liquidation_day = t
                  /\ FrozenAfter(single.equity_path, single.margin_path,
                                 single.margin_ratio_path, t, single.n)
    /\ (mc.done /\ sim.position_side = "Short") =>
          \A j \in 1..mc.n : \A t \in from..mc.T :
              FirstBreach(mc.equity_paths[j], mc.margin_paths[j], t, from) =>
                  /\ mc.liquidation_days[j] = t
                  /\ FrozenAfter(mc.equity_paths[j], mc.margin_paths[j],
                                 mc.margin_ratio_paths[j], t, mc.T)

SideMultiplier(side) == IF side \in {"Long", "long"} THEN One ELSE RNeg(One)

\* equity[t] = equity[t-1] + (price[t] - price[t-1]) * contract_size * m at
\* every step 1..last of a path.
MarkedToMarket(equity_path, option_price_path, last, m) ==
    \A t \in 1..last :
        equity_path[t] =
            RAdd(equity_path[t - 1],
                 RMul(RMul(RSub(option_price_path[t], option_price_path[t - 1]),
                           sim.contract_size), m))

Max0(x) == IF RGt(x, Zero) THEN x ELSE Zero

\* numpy.quantile(samples, level), by linear interpolation between the
\* order statistics around position level * (n - 1); NaN when a sample is.
quantile(samples, level) ==
    LET n == Len(samples)
        sorted == SortSeq(samples, LAMBDA a, b : RLt(a, b))
        h == RMul(level, R(n - 1, 1))
        lo == h[1] \div h[2]
        frac == RSub(h, R(lo, 1))
    IN  IF \E i \in 1..n : IsNaN(samples[i]) THEN NaN
        ELSE IF lo + 1 >= n THEN sorted[n]
        ELSE RAdd(sorted[lo + 1],
                  RMul(RSub(sorted[lo + 2], sorted[lo + 1]), frac))

\* samples[samples >= threshold]: the right tail.
RightTail(samples, threshold) == SelectSeq(samples, LAMBDA x : RLe(threshold, x))

\* samples[samples <= threshold]: the left tail.
LeftTail(samples, threshold) == SelectSeq(samples, LAMBDA x : RLe(x, threshold))

\* "VaR level must be between 0 and 1."
LevelError(level) == ~(RLt(Zero, level) /\ RLt(level, One))

compute_var(final_values, initial_balance, level) ==
    LET threshold == quantile(final_values, level)
    IN  IF LevelError(level) THEN ValueError
        ELSE Max0(RSub(initial_balance, threshold))

compute_cvar(final_values, initial_balance, level) ==
    LET threshold == quantile(final_values, level)
        tail == LeftTail(final_values, threshold)
        expected_tail == IF Len(tail) # 0 THEN RDiv(RSum(tail), R(Len(tail), 1))
                         ELSE threshold
    IN  IF LevelError(level) THEN ValueError
        ELSE Max0(RSub(initial_balance, expected_tail))

summarize_tail_risk(final_values, initial_balance, level) ==
    IF LevelError(level) THEN ValueError
    ELSE [value_at_risk |-> compute_var(final_values, initial_balance, level),
          conditional_value_at_risk |->
              compute_cvar(final_values, initial_balance, level)]

(***************************************************************************)
(* forward_simulator: ForwardSimulator, with distributions.generate_returns *)
(***************************************************************************)
PERIODS_PER_YEAR == 12

ContributionPlan(annual_contribution, frequency) ==
    [annual_contribution |-> annual_contribution, frequency |-> frequency]

\* ContributionPlan.periodic_contribution
periodic_contribution(plan) ==
    IF plan.frequency # 0
    THEN RDiv(plan.annual_contribution, R(plan.frequency, 1))
    ELSE Zero

SimulationConfig(years, initial_balance, num_trials, rebalance_frequency, assets, contribution_plan, strategy_config) ==
    [years |-> years, initial_balance |-> initial_balance,
     num_trials |-> num_trials, rebalance_frequency |-> rebalance_frequency,
     assets |-> assets, contribution_plan |-> contribution_plan,
     strategy |-> strategy_config]

\* An input_model: None, or a dict with a dist_name and params.  A parameter
\* value is a scalar, a per-asset list or a map keyed by asset name.
NoInputModel == [present |-> FALSE, dist_name |-> "normal", params |-> <<>>]

InputModel(dist_name, params) ==
    [present |-> TRUE, dist_name |-> dist_name, params |-> params]

Scalar(x) == [kind |-> "scalar", value |-> x]

PerAsset(list) == [kind |-> "list", value |-> list]

ByName(map) == [kind |-> "dict", value |-> map]

\* One generator shared by the simulators, as numpy's global generator is.
default_rng_shared(seed) ==
    IF fwd[1].pc = "none" THEN [seed |-> seed, pos |-> 0, altered |-> 0]
    ELSE [fwd[1].self.rng EXCEPT !.altered = 0]

\* numpy.random.default_rng(seed): a generator is its seed and the number of
\* values drawn so far.  `altered` names the trial whose draws are replaced
\* by other ones (0: none), for comparing runs that differ in one trial's draws.
default_rng(seed) == [seed |-> seed, pos |-> 0, altered |-> 0]

\* The stream of a seed: a fixed function of the seed and the position.
\* Most draws leave a value unchanged, so that the values of twelve periods
\* stay within 32-bit numerators and denominators.
ZTable == <<0, 2, 0, -1, 0, 0, -2>>

StreamIndex(seed, pos, n) == ((pos * (seed + 1) + seed) % n) + 1

\* The j-th of the next values of generator.standard_normal(size), drawn
\* for trial j.
standard_normal(rng, j) ==
    LET z == ZTable[StreamIndex(rng.seed, rng.pos + j, Len(ZTable))]
    IN  R(IF j = rng.altered THEN -z ELSE z, 1)

\* generator.chisquare(df, size): df times the square of 1 or 2.
ChiTable == <<1, 2, 1>>

chisquare(df, rng, j) ==
    LET c == ChiTable[StreamIndex(rng.seed, rng.pos + j, Len(ChiTable))]
    IN  RMul(df, R(c * c, 1))

Advance(rng, n) == [rng EXCEPT !.pos = @ + n]

\* dict.get(key, default)
Get(params, key, default) == IF key \in DOMAIN params THEN params[key] ELSE default

\* A dict of floats, as a params argument: every value a scalar.
Floats(params) == [key \in DOMAIN params |-> Scalar(params[key])]

\* A raised error, the generator left as it is after drawing n values.
Raised(rng, n) == [raised |-> TRUE, values |-> <<>>, rng |-> Advance(rng, n)]

\* generator.integers(0, n, size): the j-th index drawn (counted from 1).
integers(n, rng, j) == StreamIndex(rng.seed, rng.pos + j, n)

\* numpy.asarray(value).size: 1 for a number, the length of a list.
asarray_size(value) == IF value.kind = "scalar" THEN 1 ELSE Len(value.value)

\* generate_returns, the branch of "normal".
normal_returns(size, params, rng) ==
    IF "mean" \notin DOMAIN params \/ "vol" \notin DOMAIN params
    THEN Raised(rng, 0)
    ELSE [raised |-> FALSE,
          values |-> [j \in 1..size |->
                         RAdd(params["mean"].value,
                              RMul(params["vol"].value, standard_normal(rng, j)))],
          rng |-> Advance(rng, size)]

\* The branch of "student_t" with df examined after the draws.
student_t_returns_drawn_first(size, params, rng) ==
    LET df == Get(params, "df", Scalar(R(5, 1))).value
        scale == Get(params, "scale", Get(params, "vol", Scalar(R(1, 50)))).value
        mean == Get(params, "mean", Scalar(Zero)).value
        after_z == Advance(rng, size)
        t_samples == [j \in 1..size |->
                         RDiv(standard_normal(rng, j),
                              RSqrt(RDiv(chisquare(df, after_z, j), df)))]
    IN  IF RLe(df, Zero) THEN Raised(rng, 2 * size)
        ELSE [raised |-> FALSE,
              values |-> [j \in 1..size |-> RAdd(mean, RMul(scale, t_samples[j]))],
              rng |-> Advance(after_z, size)]

\* generate_returns, the branch of "student_t".
student_t_returns(size, params, rng) ==
    LET df == Get(params, "df", Scalar(R(5, 1))).value
        scale == Get(params, "scale", Get(params, "vol", Scalar(R(1, 50)))).value
        mean == Get(params, "mean", Scalar(Zero)).value
        after_z == Advance(rng, size)
        t_samples == [j \in 1..size |->
                         RDiv(standard_normal(rng, j),
                              RSqrt(RDiv(chisquare(df, after_z, j), df)))]
    IN  IF RLe(df, Zero) THEN Raised(rng, 0)
        ELSE [raised |-> FALSE,
              values |-> [j \in 1..size |-> RAdd(mean, RMul(scale, t_samples[j]))],
              rng |-> Advance(after_z, size)]

\* generate_returns, the branch of "empirical_bootstrap": historical_returns
\* given as a number is a 0-dimensional array of size 1, the indices are
\* drawn, and indexing it with them raises IndexError.
empirical_bootstrap_returns(size, params, rng) ==
    IF "historical_returns" \notin DOMAIN params THEN Raised(rng, 0)
    ELSE IF asarray_size(params["historical_returns"]) = 0 THEN Raised(rng, 0)
    ELSE IF params["historical_returns"].kind = "scalar" THEN Raised(rng, size)
    ELSE [raised |-> FALSE,
          values |->
              [j \in 1..size |->
                  params["historical_returns"].value[
                      integers(Len(params["historical_returns"].value), rng, j)]],
          rng |-> Advance(rng, size)]

\* generate_returns(dist_name, size, params, rng): the returns, or a raised
\* error, and the generator after the call.  A value of params is a number
\* (Scalar) or a list (PerAsset).
generate_returns(dist_name, size, params, rng) ==
    CASE dist_name = "normal" -> normal_returns(size, params, rng)
      [] dist_name = "student_t" -> student_t_returns(size, params, rng)
      [] dist_name = "empirical_bootstrap" ->
             empirical_bootstrap_returns(size, params, rng)
      [] OTHER -> Raised(rng, 0)

\* The 12th roots the configurations need.
PeriodicRoots == {One, R(1, 2)}

\* ForwardSimulator._annual_to_periodic: (1 + r) ** (1 / 12) - 1
_annual_to_periodic(annual_return) ==
    RSub(CHOOSE root \in PeriodicRoots :
             RPow(root, PERIODS_PER_YEAR) = RAdd(One, annual_return),
         One)

\* ForwardSimulator.__init__
ForwardSimulator(config, seed, input_model) ==
    [config |-> config,
     strategy |-> build_strategy(config.assets, config.strategy),
     rng |-> default_rng(seed),
     assets |-> config.assets,
     num_assets |-> Len(config.assets),
     input_model |-> input_model,
     monthly_return_mean |->
         [i \in 1..Len(config.assets) |->
             _annual_to_periodic(config.assets[i].expected_return)],
     monthly_volatility |->
         [i \in 1..Len(config.assets) |-> RDiv(config.assets[i].volatility, R(2, 1))]]

\* ForwardSimulator._select_param_value: the float, or a raised ValueError.
_select_param_value(self, value, asset_index) ==
    CASE value.kind = "dict" ->
             IF self.assets[asset_index].name \notin DOMAIN value.value
             THEN [raised |-> TRUE, value |-> None]
             ELSE [raised |-> FALSE,
                   value |-> value.value[self.assets[asset_index].name]]
      [] value.kind = "list" ->
             IF Len(value.value) # self.num_assets
             THEN [raised |-> TRUE, value |-> None]
             ELSE [raised |-> FALSE, value |-> value.value[asset_index]]
      [] OTHER -> [raised |-> FALSE, value |-> value.value]

\* The distribution of an asset from its own parameters alone.
_distribution_for_asset_own(self, asset_index) ==
    [raised |-> FALSE, dist_name |-> "normal",
     params |-> [key \in {"mean", "vol"} |->
                    IF key = "mean" THEN self.monthly_return_mean[asset_index]
                    ELSE self.monthly_volatility[asset_index]]]

\* ForwardSimulator._distribution_for_asset
_distribution_for_asset(self, asset_index) ==
    LET base_params == [key \in {"mean", "vol"} |->
                           IF key = "mean" THEN self.monthly_return_mean[asset_index]
                           ELSE self.monthly_volatility[asset_index]]
        user_params == self.input_model.params
        selected == [key \in DOMAIN user_params |->
                        _select_param_value(self, user_params[key], asset_index)]
    IN  IF ~self.input_model.present
        THEN [raised |-> FALSE, dist_name |-> "normal", params |-> base_params]
        ELSE IF \E key \in DOMAIN user_params : selected[key].raised
        THEN [raised |-> TRUE, dist_name |-> self.input_model.dist_name,
              params |-> base_params]
        ELSE [raised |-> FALSE, dist_name |-> self.input_model.dist_name,
              params |-> [key \in DOMAIN base_params \cup DOMAIN user_params |->
                             IF key \in DOMAIN user_params THEN selected[key].value
                             ELSE base_params[key]]]

\* ForwardSimulator._sanitize_input_model
_sanitize_input_model(model) ==
    IF ~model.present THEN NoInputModel
    ELSE [present |-> TRUE, dist_name |-> model.dist_name, params |-> model.params]

\* numpy.linspace(0, years, periods + 1)
linspace(years, periods) == [k \in 0..periods |-> R(years * k, periods)]

\* numpy.cov(asset_returns, rowvar=False): the sample covariance of the
\* columns, 0-dimensional for a single column.
np_cov(asset_returns) ==
    LET T == Len(asset_returns)
        N == Len(asset_returns[1])
        mean == [i \in 1..N |->
                    RDiv(RSum([j \in 1..T |-> asset_returns[j][i]]), R(T, 1))]
        c(a, b) == RDiv(RSum([j \in 1..T |->
                                 RMul(RSub(asset_returns[j][a], mean[a]),
                                      RSub(asset_returns[j][b], mean[b]))]),
                        R(T - 1, 1))
    IN  IF N = 1 THEN CovScalar(c(1, 1))
        ELSE CovMatrix([a \in 1..N |-> [b \in 1..N |-> c(a, b)]])

\* zeros((num_trials, periods + 1)), column 0 left as it is.
ZeroTrajectories(config, periods) ==
    [j \in 1..config.num_trials |-> [k \in 0..periods |-> Zero]]

\* run(): trajectories = zeros((num_trials, periods + 1)) with column 0 set
\* to the initial balance.
InitialTrajectories(config, periods) ==
    [j \in 1..config.num_trials |->
        [k \in 0..periods |-> IF k = 0 THEN config.initial_balance ELSE Zero]]

\* No iteration of the loop of run() was made yet.
NoIteration == [step |-> 0, rebalanced |-> FALSE]

\* run(), up to the loop: its locals.  contributions_applied counts the
\* executions of the contribution statement, and log describes the last
\* iteration: the asset values and weights it started from, the returns it
\* drew, the asset values they grew to, the portfolio values, the weights of
\* the trials, and whether strategy.rebalance was called.
run_setup(self) ==
    LET periods == self.config.years * PERIODS_PER_YEAR
        weights == initialize(self.strategy)
        trajectories == InitialTrajectories(self.config, periods)
    IN  [periods |-> periods,
         timeline |-> linspace(self.config.years, periods),
         weights |-> weights,
         weights_history |->
             [k \in 0..periods |-> IF k = 0 THEN weights ELSE Zeros(self.num_assets)],
         trajectories |-> trajectories,
         asset_values |->
             [j \in 1..self.config.num_trials |-> VScale(weights, trajectories[j][0])],
         periodic_contribution |->
             periodic_contribution(self.config.contribution_plan),
         step |-> 1,
         contributions_applied |-> 0,
         log |-> NoIteration]

\* The start of an iteration of the loop of run(): the log of the iteration
\* opens with the asset values and the weights it starts from.
run_begin(loc) ==
    [loc EXCEPT !.log = [step |-> loc.step,
                         start_values |-> loc.asset_values,
                         start_weights |-> loc.weights,
                         rebalanced |-> FALSE]]

\* The inner loop of run() over the first n assets: the columns of
\* asset_returns filled so far, the generator, and whether an error was raised.
RECURSIVE asset_returns_upto(_, _)
asset_returns_upto(self, n) ==
    IF n = 0 THEN [raised |-> FALSE, columns |-> <<>>, rng |-> self.rng]
    ELSE LET prev == asset_returns_upto(self, n - 1)
             dist == _distribution_for_asset(self, n)
             gen == generate_returns(dist.dist_name, self.config.num_trials,
                                     Floats(dist.params), prev.rng)
         IN  IF prev.raised THEN prev
             ELSE IF dist.raised THEN [prev EXCEPT !.raised = TRUE]
             ELSE IF gen.raised THEN [prev EXCEPT !.raised = TRUE, !.rng = gen.rng]
             ELSE [raised |-> FALSE, columns |-> Append(prev.columns, gen.values),
                   rng |-> gen.rng]

\* The contribution statement of an iteration: every trial's asset values
\* grow by weights * periodic_contribution when the contribution is positive.
run_contribute(self, loc) ==
    IF RGt(loc.periodic_contribution, Zero)
    THEN [loc EXCEPT
             !.asset_values =
                 [j \in 1..self.config.num_trials |->
                     VAdd(loc.asset_values[j],
                          VScale(loc.weights, loc.periodic_contribution))],
             !.contributions_applied = @ + 1]
    ELSE loc

\* Rebalancing one period late: at the periods after the multiples.
rebalance_due_late(self, step) ==
    (step - 1) % self.config.rebalance_frequency = 0

\* if step % self.config.rebalance_frequency == 0
rebalance_due(self, step) == step % self.config.rebalance_frequency = 0

\* The end of an iteration that rebalances: the strategy's answer is the new
\* weights of every trial, or the error it raised.
run_rebalance(self, loc, rng, portfolio_values, weights) ==
    IF weights = ValueError
    THEN [raised |-> "strategy", rng |-> rng,
          loc |-> [loc EXCEPT !.log.rebalanced = TRUE]]
    ELSE [raised |-> "",
          rng |-> rng,
          loc |-> [loc EXCEPT
                      !.log.rebalanced = TRUE,
                      !.asset_values =
                          [j \in 1..self.config.num_trials |->
                              VScale(weights, portfolio_values[j])],
                      !.weights = weights,
                      !.weights_history = [@ EXCEPT ![loc.step] = weights],
                      !.step = @ + 1]]

\* An iteration from the grown asset values (loc.asset_values) on: the
\* portfolio values are recorded, and on a rebalancing step the strategy is
\* asked with the average weights of the trials and the covariance of the
\* period's returns.
run_record(self, loc, rng, asset_returns) ==
    LET T == self.config.num_trials
        N == self.num_assets
        portfolio_values == [j \in 1..T |-> RSum(loc.asset_values[j])]
        current_weights ==
            [j \in 1..T |->
                IF RGt(portfolio_values[j], Zero)
                THEN VDivS(loc.asset_values[j], portfolio_values[j])
                ELSE Zeros(N)]
        average_weight ==
            [i \in 1..N |->
                RDiv(RSum([j \in 1..T |-> current_weights[j][i]]), R(T, 1))]
        recorded ==
            [loc EXCEPT
                !.trajectories =
                    [j \in 1..T |-> [@[j] EXCEPT ![loc.step] = portfolio_values[j]]],
                !.log = [step |-> loc.step,
                         start_values |-> loc.log.start_values,
                         start_weights |-> loc.log.start_weights,
                         asset_returns |-> asset_returns,
                         grown |-> loc.asset_values,
                         portfolio_values |-> portfolio_values,
                         rebalanced |-> FALSE,
                         current_weights |-> current_weights,
                         average_weight |-> average_weight]]
        covariance == IF T > 1 THEN np_cov(asset_returns) ELSE CovNone
    IN  IF rebalance_due(self, loc.step)
        THEN run_rebalance(self, recorded, rng, portfolio_values,
                           rebalance(self.strategy, average_weight, covariance))
        ELSE [raised |-> "",
              rng |-> rng,
              loc |-> [recorded EXCEPT
                          !.weights_history = [@ EXCEPT ![loc.step] = loc.weights],
                          !.step = @ + 1]]

\* An iteration from the drawn returns on: an error of the input model ends
\* it, otherwise every asset value grows by its return.
run_returns(self, loc, drawn) ==
    IF drawn.raised
    THEN [raised |-> "input_model", rng |-> drawn.rng, loc |-> loc]
    ELSE LET asset_returns ==
                 [j \in 1..self.config.num_trials |->
                     [i \in 1..self.num_assets |-> drawn.columns[i][j]]]
         IN  run_record(self,
                        [loc EXCEPT
                            !.asset_values =
                                [j \in 1..self.config.num_trials |->
                                    [i \in 1..self.num_assets |->
                                        RMul(@[j][i], RAdd(One, asset_returns[j][i]))]]],
                        drawn.rng, asset_returns)

\* One iteration of the loop of run(), for step loc.step: the locals and the
\* generator after it, and the error it raised ("" for none).  An error
\* leaves what the iteration had done before it.
run_step(self, loc) ==
    run_returns(self, run_contribute(self, run_begin(loc)),
                asset_returns_upto(self, self.num_assets))

\* run(), after the loop: the ForwardSimulationResult.
run_result(self, loc) ==
    [done |-> TRUE,
     timeline |-> loc.timeline,
     trajectories |-> loc.trajectories,
     weights_history |-> loc.weights_history,
     config |-> self.config,
     input_model |-> _sanitize_input_model(self.input_model)]

\* numpy.maximum: the larger value, NaN when either is.
np_maximum(a, b) == IF IsNaN(a) \/ IsNaN(b) THEN NaN ELSE IF RLt(a, b) THEN b ELSE a

\* numpy.maximum.accumulate along a path: the running peak at period k.
RECURSIVE cumulative_peak(_, _)
cumulative_peak(path, k) ==
    IF k = 0 THEN path[0] ELSE np_maximum(cumulative_peak(path, k - 1), path[k])

\* The largest of the first k + 1 entries of a path of drawdowns.
RECURSIVE max_upto(_, _)
max_upto(path, k) ==
    IF k = 0 THEN path[0] ELSE np_maximum(max_upto(path, k - 1), path[k])

\* ForwardSimulationResult.max_drawdown_series: per trial, the largest of
\* 1 - value / running peak, the ratio being 1 where the peak is not positive.
max_drawdown_series(result) ==
    [j \in DOMAIN result.trajectories |->
        LET path == result.trajectories[j]
            last == Cardinality(DOMAIN path) - 1
            drawdowns ==
                [k \in 0..last |->
                    RSub(One,
                         IF RGt(cumulative_peak(path, k), Zero)
                         THEN RDiv(path[k], cumulative_peak(path, k))
                         ELSE One)]
        IN  max_upto(drawdowns, last)]

\* pandas Series.median: the median of the values that are not NaN.
median(values) ==
    LET kept == SelectSeq(values, LAMBDA x : ~IsNaN(x))
    IN  IF Len(kept) = 0 THEN NaN ELSE quantile(kept, R(1, 2))

\* ForwardSimulationResult.final_distribution
final_distribution(result) ==
    [j \in DOMAIN result.trajectories |->
        result.trajectories[j][Cardinality(DOMAIN result.trajectories[j]) - 1]]

\* ForwardSimulationResult.risk_metrics(level=level)
risk_metrics(result, level) ==
    IF LevelError(level) THEN ValueError
    ELSE LET tail_risk == summarize_tail_risk(final_distribution(result),
                                              result.config.initial_balance, level)
         IN  [value_at_risk |-> tail_risk.value_at_risk,
              conditional_value_at_risk |-> tail_risk.conditional_value_at_risk,
              max_drawdown |-> median(max_drawdown_series(result)),
              input_model |-> result.input_model]

(***************************************************************************)
(* Two forward simulators built from one configuration, input model and    *)
(* seed, each run once, one after the other                                *)
(***************************************************************************)
\* The most trials of a configuration, and the number of seeds.
MaxTrials == 2

NumSeeds == 2

Years == {1}

LongYears == {2}

InitialBalance == R(64, 1)

\* One asset, and two assets of equal weight (volatility in units of
\* sqrt(3): the monthly volatilities are 1/2, and 3/8 and 1/2).
OneAsset == <<Asset("A", Zero, One, One)>>

OneDecliningAsset == <<Asset("A", R(-4095, 4096), One, R(2, 1))>>

TwoAssets == <<Asset("A", Zero, R(3, 4), One), Asset("B", Zero, One, One)>>

ForwardAssetLists == {OneAsset, OneDecliningAsset, TwoAssets}

ForwardStrategyConfigs ==
    { StrategyConfig(n, None, R(1, 20), None) :
          n \in StrategyNames \ {"adaptive", "mean_reversion"} }
    \cup { StrategyConfig("target_risk", R(1, 4), R(1, 20), None) }
    \cup { StrategyConfig("adaptive", None, th, None) : th \in {R(1, 20), One} }
    \cup { StrategyConfig("mean_reversion", None, R(1, 20), speed) :
               speed \in {Zero, R(1, 2)} }

ContributionPlans == { ContributionPlan(Zero, 12), ContributionPlan(R(12, 1), 12) }

\* Contributions of 12 a year made monthly and quarterly.
PlanFrequencies == {12, 4}

MeanVol(mean, vol) == [key \in {"mean", "vol"} |-> IF key = "mean" THEN mean ELSE vol]

\* A normal distribution of volatility 0 around a mean.
ZeroVol(m) == InputModel("normal", MeanVol(Scalar(m), Scalar(Zero)))

ZeroVolMeans == {R(-2, 1), RNeg(One), R(-1, 2), One}

ZeroVolInputModels == { ZeroVol(m) : m \in ZeroVolMeans }

\* Every return is zero.
ZeroReturns == ZeroVol(Zero)

StudentT == InputModel("student_t", [key \in {"df"} |-> Scalar(R(4, 1))])

\* Means given per asset as a list and volatilities as a map by name.
PerAssetNormal ==
    InputModel("normal",
               MeanVol(PerAsset(<<Zero, Zero>>),
                       ByName([name \in {"A", "B"} |->
                                  IF name = "A" THEN R(1, 2) ELSE Zero])))

\* The input models each asset list is run with.
ValidInputModels(assets) ==
    CASE assets = OneAsset -> {NoInputModel, StudentT} \cup ZeroVolInputModels
      [] assets = OneDecliningAsset -> {NoInputModel, ZeroVol(One)}
      [] assets = TwoAssets -> {NoInputModel, StudentT, PerAssetNormal, ZeroVol(One)}

\* Rebalancing every period only where the returns have no volatility.
RebalanceFrequencies(im) == IF im \in ZeroVolInputModels THEN {1, 7, 12} ELSE {7, 12}

\* Input models with a configuration error: an unknown distribution, a list
\* of the wrong length, a map without asset "B", a missing required
\* parameter, a degree of freedom that is not positive, and historical
\* returns given as a number.
InvalidInputModels ==
    { InputModel("lognormal", <<>>),
      InputModel("normal", [key \in {"mean"} |-> PerAsset(<<Zero, Zero, Zero>>)]),
      InputModel("normal", [key \in {"mean"} |-> ByName([name \in {"A"} |-> Zero])]),
      InputModel("empirical_bootstrap", <<>>),
      InputModel("student_t", [key \in {"df"} |-> Scalar(Zero)]),
      InputModel("empirical_bootstrap",
                 [key \in {"historical_returns"} |-> Scalar(Zero)]) }

\* The configurations: every strategy variant on every asset list with its
\* input models, without contributions; contributions with the strategies
\* of constant weights, on one trial or on returns without volatility; and
\* the erroneous input models on the fixed strategy; two years of a
\* declining balance; and one and two years of monthly and quarterly
\* contribution plans on returns of zero.
ForwardSetups ==
    { [config |-> SimulationConfig(y, InitialBalance, nt, rf, assets,
                                   ContributionPlan(Zero, 12), sc),
       input_model |-> im] :
          y \in Years, nt \in 1..MaxTrials, rf \in {1, 7, 12},
          assets \in ForwardAssetLists, sc \in ForwardStrategyConfigs,
          im \in UNION { ValidInputModels(a) : a \in ForwardAssetLists } }
    \cup
    { [config |-> SimulationConfig(y, InitialBalance, run.nt, rf, assets, plan,
                                   StrategyConfig(n, None, R(1, 20), None)),
       input_model |-> run.im] :
          y \in Years, rf \in {1, 7, 12},
          assets \in {OneAsset, TwoAssets}, plan \in ContributionPlans,
          n \in {"fixed", "equal_weight"},
          run \in { [nt |-> 1, im |-> NoInputModel] }
                  \cup [nt : 1..MaxTrials, im : {ZeroVol(One)}] }
    \cup
    { [config |-> SimulationConfig(y, InitialBalance, nt, 12, assets, plan,
                                   StrategyConfig("fixed", None, R(1, 20), None)),
       input_model |-> im] :
          y \in Years, nt \in 1..MaxTrials, assets \in {OneAsset, TwoAssets},
          plan \in ContributionPlans, im \in InvalidInputModels }
    \cup
    { [config |-> SimulationConfig(y, InitialBalance, nt, 12, OneAsset,
                                   ContributionPlan(Zero, 12),
                                   StrategyConfig("fixed", None, R(1, 20), None)),
       input_model |-> ZeroVol(R(-1, 2))] :
          y \in LongYears, nt \in 1..MaxTrials }
    \cup
    { [config |-> SimulationConfig(y, InitialBalance, nt, 12, assets,
                                   ContributionPlan(R(12, 1), frequency),
                                   StrategyConfig("fixed", None, R(1, 20), None)),
       input_model |-> ZeroReturns] :
          y \in Years \cup LongYears, nt \in 1..MaxTrials,
          assets \in {OneAsset, TwoAssets}, frequency \in PlanFrequencies }

NotConstructed == [pc |-> "none"]

ForwardIdle ==
    /\ fwdConfig = Idle
    /\ fwdInputModel = NoInputModel
    /\ fwdSeed = 0
    /\ fwd = <<NotConstructed, NotConstructed>>

ForwardInit ==
    /\ \E setup \in ForwardSetups :
          /\ ValidAssets(setup.config.assets)
          /\ setup.input_model \in
                 ValidInputModels(setup.config.assets) \cup InvalidInputModels
                     \cup {ZeroReturns}
          /\ setup.config.rebalance_frequency \in
                 RebalanceFrequencies(setup.input_model)
          /\ fwdConfig = setup.config
          /\ fwdInputModel = setup.input_model
    /\ fwdSeed \in 1..NumSeeds
    /\ fwd = <<NotConstructed, NotConstructed>>

Finished(i) == fwd[i].pc \in {"done", "error"}

\* The level the metrics of a result are asked at (VaR95).
MetricsLevel == R(1, 20)

NoMetrics == [taken |-> FALSE]

\* The run has failed, or the metrics of its result have been taken.
Measured(i) == fwd[i].pc = "error" \/ (fwd[i].pc = "done" /\ fwd[i].metrics.taken)

\* ForwardSimulator(config, seed=seed, input_model=input_model); the second
\* simulator is built once the first has run and its result was measured,
\* with the same generator or with one whose draws for one trial differ.
Construct ==
    /\ \E i \in 1..2, altered \in 0..fwdConfig.num_trials :
          /\ fwd[i].pc = "none"
          /\ IF i = 1 THEN altered = 0 ELSE Measured(1)
          /\ LET self == ForwardSimulator(fwdConfig, fwdSeed, fwdInputModel)
             IN  fwd' = [fwd EXCEPT ![i] =
                            [pc |-> "ready",
                             self |-> [self EXCEPT !.rng.altered = altered],
                             loc |-> NoLocals,
                             result |-> NoResult,
                             metrics |-> NoMetrics]]
    /\ UNCHANGED <<fwdConfig, fwdInputModel, fwdSeed, notForward>>

\* run() is called and reaches its loop.
RunStart ==
    /\ \E i \in 1..2 :
          /\ fwd[i].pc = "ready"
          /\ fwd' = [fwd EXCEPT ![i].pc = "running",
                                ![i].loc = run_setup(fwd[i].self)]
    /\ UNCHANGED <<fwdConfig, fwdInputModel, fwdSeed, notForward>>

\* One iteration of the loop of run(); an error ends the run.
RunStep ==
    /\ \E i \in 1..2 :
          /\ fwd[i].pc = "running"
          /\ fwd[i].loc.step <= fwd[i].loc.periods
          /\ LET out == run_step(fwd[i].self, fwd[i].loc)
             IN  fwd' = [fwd EXCEPT
                            ![i].pc = IF out.raised = "" THEN "running" ELSE "error",
                            ![i].self.rng = out.rng,
                            ![i].loc = out.loc,
                            ![i].result = [done |-> FALSE, raised |-> out.raised]]
    /\ UNCHANGED <<fwdConfig, fwdInputModel, fwdSeed, notForward>>

\* run() returns its result.
RunReturn ==
    /\ \E i \in 1..2 :
          /\ fwd[i].pc = "running"
          /\ fwd[i].loc.step > fwd[i].loc.periods
          /\ fwd' = [fwd EXCEPT ![i].pc = "done",
                                ![i].result = run_result(fwd[i].self, fwd[i].loc)]
    /\ UNCHANGED <<fwdConfig, fwdInputModel, fwdSeed, notForward>>

\* result.max_drawdown_series() and result.risk_metrics(level=0.05) on the
\* result of a run.
Measure ==
    /\ \E i \in 1..2 :
          /\ fwd[i].pc = "done"
          /\ ~fwd[i].metrics.taken
          /\ fwd' = [fwd EXCEPT
                         ![i].metrics =
                             [taken |-> TRUE,
                              max_drawdowns |-> max_drawdown_series(fwd[i].result),
                              risk_metrics |->
                                  risk_metrics(fwd[i].result, MetricsLevel)]]
    /\ UNCHANGED <<fwdConfig, fwdInputModel, fwdSeed, notForward>>

ForwardNext == Construct \/ RunStart \/ RunStep \/ RunReturn \/ Measure

(***************************************************************************)
(* Claims about the forward simulator                                      *)
(***************************************************************************)
Altered == fwd[2].self.rng.altered

\* C4: two simulators constructed with the same configuration, the same
\* input model and the same seed end run() the same way, and when they
\* return, their trajectories and weights histories are identical.
C4_SameSeedSameResult ==
    (Finished(1) /\ Finished(2) /\ Altered = 0) =>
        /\ fwd[2].pc = fwd[1].pc
        /\ fwd[1].pc = "done" =>
              /\ fwd[2].result.trajectories = fwd[1].result.trajectories
              /\ fwd[2].result.weights_history = fwd[1].result.weights_history

\* Both simulators have returned from the same seed, on two trials of two
\* assets whose drawn returns made the trials differ.
C4_Witness ==
    /\ fwd[1].pc = "done" /\ fwd[2].pc = "done" /\ Altered = 0
    /\ fwdConfig.assets = TwoAssets /\ fwdConfig.num_trials = 2
    /\ fwdInputModel = NoInputModel
    /\ fwd[2].result.trajectories[1] # fwd[2].result.trajectories[2]
    /\ fwd[2].result.trajectories = fwd[1].result.trajectories

\* C5: the result of run() has one trajectory per trial over steps
\* 0..years*12, each starting at the initial balance, one weight vector of
\* num_assets entries per step, and a timeline over the same steps.
C5_ResultShapes ==
    \A i \in 1..2 :
        fwd[i].pc = "done" =>
            LET result == fwd[i].result
                steps == 0..(fwdConfig.years * 12)
            IN  /\ DOMAIN result.trajectories = 1..fwdConfig.num_trials
                /\ \A j \in 1..fwdConfig.num_trials :
                      /\ DOMAIN result.trajectories[j] = steps
                      /\ result.trajectories[j][0] = fwdConfig.initial_balance
                /\ DOMAIN result.weights_history = steps
                /\ \A k \in steps :
                      DOMAIN result.weights_history[k] = 1..Len(fwdConfig.assets)
                /\ DOMAIN result.timeline = steps

\* A run of two years on two trials has returned.
C5_Witness ==
    /\ fwd[1].pc = "done"
    /\ fwdConfig.years = 2 /\ fwdConfig.num_trials = 2
    /\ fwd[1].result.trajectories[2][24] # fwdConfig.initial_balance

\* The four configuration errors of an input model: an unknown
\* distribution, a list of the wrong length, a map without an asset of the
\* configuration, a missing required parameter.
ConfigurationError ==
    \/ fwdInputModel.dist_name \notin {"normal", "student_t", "empirical_bootstrap"}
    \/ \E key \in DOMAIN fwdInputModel.params :
          LET value == fwdInputModel.params[key]
          IN  \/ value.kind = "list" /\ Len(value.value) # Len(fwdConfig.assets)
              \/ /\ value.kind = "dict"
                 /\ \E i \in 1..Len(fwdConfig.assets) :
                       fwdConfig.assets[i].name \notin DOMAIN value.value
    \/ /\ fwdInputModel.dist_name = "empirical_bootstrap"
       /\ "historical_returns" \notin DOMAIN fwdInputModel.params

\* C6: when a configuration error of the input model is raised, no period
\* has been simulated, no contribution has been applied and no value has
\* been drawn from the simulator's generator.
C6_ConfigurationErrorBeforeSimulation ==
    \A i \in 1..2 :
        (fwd[i].pc = "error" /\ fwd[i].result.raised = "input_model"
             /\ ConfigurationError) =>
            /\ fwd[i].loc.step = 1
            /\ fwd[i].loc.contributions_applied = 0
            /\ fwd[i].self.rng.pos = 0

\* C7: changing the draws of one trial leaves the trajectory of every other
\* trial as it was.
C7_TrialsIndependent ==
    (fwd[1].pc = "done" /\ fwd[2].pc = "done") =>
        \A j \in 1..fwdConfig.num_trials :
            j # Altered =>
                fwd[2].result.trajectories[j] = fwd[1].result.trajectories[j]

\* One asset, no contributions, and a normal input model of volatility 0.
ZeroVolSingleAsset ==
    /\ Len(fwdConfig.assets) = 1
    /\ fwdConfig.contribution_plan.annual_contribution = Zero
    /\ fwdInputModel \in ZeroVolInputModels

\* Simulator i has not raised, and every value it has recorded is the
\* initial balance compounded at the mean of the input model.
CompoundsAtMean(i) ==
    LET m == fwdInputModel.params["mean"].value
    IN  /\ fwd[i].pc # "error"
        /\ \A j \in 1..fwdConfig.num_trials :
              \A k \in 0..(fwd[i].loc.step - 1) :
                  fwd[i].loc.trajectories[j][k] =
                      RMul(fwdConfig.initial_balance, RPow(RAdd(One, m), k))

InUnitInterval(x) == RLe(Zero, x) /\ RLe(x, One)

\* C11: for every result a run produced, every trial's value of
\* max_drawdown_series() lies in [0, 1], and so does the max_drawdown entry
\* of risk_metrics().
C11_DrawdownsWithinUnitInterval ==
    \A i \in 1..2 :
        (fwd[i].pc = "done" /\ fwd[i].metrics.taken) =>
            /\ \A j \in DOMAIN fwd[i].metrics.max_drawdowns :
                   InUnitInterval(fwd[i].metrics.max_drawdowns[j])
            /\ InUnitInterval(fwd[i].metrics.risk_metrics.max_drawdown)

\* Simulator i has completed an iteration of the loop of run() (the last
\* one it made is in its log) without an error.
Iterated(i) ==
    /\ fwd[i].pc \in {"running", "done"}
    /\ fwd[i].loc.log.step >= 1

\* Simulator i has rebalanced in its last iteration and redistributed.
Redistributed(i) == Iterated(i) /\ fwd[i].loc.log.rebalanced

\* C21: at a rebalance step of run(), a trial whose portfolio value is zero
\* or negative gets the all-zero weight vector in the average (no quotient by
\* its value is taken) and holds zero in every asset after the step's
\* redistribution.
C21_WorthlessTrialHoldsZero ==
    \A i \in 1..2 :
        Redistributed(i) =>
            \A j \in 1..fwd[i].self.config.num_trials :
                ~RGt(fwd[i].loc.log.portfolio_values[j], Zero) =>
                    /\ fwd[i].loc.log.current_weights[j] =
                           Zeros(fwd[i].self.num_assets)
                    /\ fwd[i].loc.asset_values[j] = Zeros(fwd[i].self.num_assets)

\* The asset values of a trial that an iteration started from, after the
\* contribution (added when positive, split by the weights) and the returns.
ContributedAndGrown(start_values, weights, contribution, asset_returns) ==
    [a \in 1..Len(start_values) |->
        RMul(IF RGt(contribution, Zero)
             THEN RAdd(start_values[a], RMul(contribution, weights[a]))
             ELSE start_values[a],
             RAdd(One, asset_returns[a]))]

\* C22: run() calls strategy.rebalance at a period exactly when the period is
\* a multiple of rebalance_frequency; at every other period the weights stay
\* (weights_history[step] = weights_history[step - 1]) and each trial's
\* asset values are those it started the period with, plus the contribution,
\* grown by the sampled returns.
C22_RebalanceOnlyAtMultiples ==
    \A i \in 1..2 :
        Iterated(i) =>
            LET loc == fwd[i].loc
                log == fwd[i].loc.log
                config == fwd[i].self.config
            IN  /\ log.rebalanced <=> (log.step % config.rebalance_frequency = 0)
                /\ (log.step % config.rebalance_frequency # 0) =>
                      /\ loc.weights_history[log.step] =
                             loc.weights_history[log.step - 1]
                      /\ loc.weights = log.start_weights
                      /\ \A j \in 1..config.num_trials :
                             loc.asset_values[j] =
                                 ContributedAndGrown(log.start_values[j],
                                                     log.start_weights,
                                                     loc.periodic_contribution,
                                                     log.asset_returns[j])

\* A run of two assets with contributions that rebalances every 7 periods
\* went through period 8 without rebalancing, its holdings changed by the
\* contribution and the returns.
C22_Witness ==
    \E i \in 1..2 :
        /\ Iterated(i)
        /\ fwd[i].self.config.rebalance_frequency = 7
        /\ fwd[i].self.num_assets = 2
        /\ fwd[i].loc.log.step = 8
        /\ ~fwd[i].loc.log.rebalanced
        /\ RGt(fwd[i].loc.periodic_contribution, Zero)
        /\ fwd[i].loc.asset_values # fwd[i].loc.log.start_values

\* C30: when every return is zero, each trial's portfolio value after
\* 12 * y periods of run() is initial_balance + y * annual_contribution,
\* whatever the frequency of the contribution plan.
C30_AnnualContributionPerYear ==
    \A i \in 1..2 :
        (fwd[i].pc = "done" /\ fwdInputModel = ZeroReturns) =>
            \A j \in 1..fwdConfig.num_trials : \A y \in 1..fwdConfig.years :
                fwd[i].result.trajectories[j][PERIODS_PER_YEAR * y] =
                    RAdd(fwdConfig.initial_balance,
                         RMul(R(y, 1),
                              fwdConfig.contribution_plan.annual_contribution))

(***************************************************************************)
(* The tail-risk helpers under calls                                       *)
(***************************************************************************)
\* The longest array of final values.
MaxSamples == 3

FinalValues == {Zero, R(50, 1), R(100, 1), R(150, 1), R(-20, 1), NaN}

FinalValueArrays == UNION { [1..n -> FinalValues] : n \in 1..MaxSamples }

InitialBalances == {R(100, 1), R(60, 1), Zero}

Levels == {R(1, 20), R(1, 4), R(1, 2), R(19, 20), Zero, One}

NoRiskCall == [op |-> "none"]

RiskIdle == riskCall = NoRiskCall /\ riskReturned = <<>>

\* The arguments the helpers are called with.
RiskInit ==
    /\ \E fv \in FinalValueArrays, ib \in InitialBalances, lv \in Levels :
          riskCall = [op |-> "none", final_values |-> fv,
                      initial_balance |-> ib, level |-> lv]
    /\ riskReturned = <<>>

\* compute_var(final_values, initial_balance=..., level=...)
ComputeVar ==
    /\ riskCall # NoRiskCall
    /\ riskCall' = [riskCall EXCEPT !.op = "compute_var"]
    /\ riskReturned' = compute_var(riskCall.final_values,
                                   riskCall.initial_balance, riskCall.level)
    /\ UNCHANGED notRisk

\* compute_cvar(final_values, initial_balance=..., level=...)
ComputeCvar ==
    /\ riskCall # NoRiskCall
    /\ riskCall' = [riskCall EXCEPT !.op = "compute_cvar"]
    /\ riskReturned' = compute_cvar(riskCall.final_values,
                                    riskCall.initial_balance, riskCall.level)
    /\ UNCHANGED notRisk

\* summarize_tail_risk(final_values, initial_balance=..., level=...)
SummarizeTailRisk ==
    /\ riskCall # NoRiskCall
    /\ riskCall' = [riskCall EXCEPT !.op = "summarize_tail_risk"]
    /\ riskReturned' = summarize_tail_risk(riskCall.final_values,
                                           riskCall.initial_balance, riskCall.level)
    /\ UNCHANGED notRisk

RiskNext == ComputeVar \/ ComputeCvar \/ SummarizeTailRisk

WeightTolerance == R(1, 1000000)

WeightTotal(asset_weights) ==
    RSum([i \in 1..Len(asset_weights) |-> asset_weights[i].weight])

NormalizedBy(asset_weights, total) ==
    [i \in 1..Len(asset_weights) |->
        [name |-> asset_weights[i].name,
         weight |-> RDiv(asset_weights[i].weight, total)]]

\* BacktestConfig._check_weights: the weights (name and weight, in the
\* order of the dict) are divided by their total unless it is 1 within 1e-6.
_check_weights(asset_weights) ==
    LET total == WeightTotal(asset_weights)
    IN  IF RGt(RAbs(RSub(total, One)), WeightTolerance)
        THEN NormalizedBy(asset_weights, total)
        ELSE asset_weights

\* BacktestConfig(...), after validation.
BacktestConfig(initial_balance, rebalance_frequency, asset_weights, contribution_plan, strategy_config) ==
    [initial_balance |-> initial_balance,
     rebalance_frequency |-> rebalance_frequency,
     asset_weights |-> _check_weights(asset_weights),
     contribution_plan |-> contribution_plan,
     strategy |-> strategy_config]

\* BacktestConfig.normalized_weights
bt_normalized_weights(config) ==
    LET total == WeightTotal(config.asset_weights)
    IN  IF RLt(RAbs(RSub(total, One)), WeightTolerance) THEN config.asset_weights
        ELSE NormalizedBy(config.asset_weights, total)

\* Backtester._build_strategy_adapter: the strategy of a SimulationConfig
\* whose assets carry the placeholder return 0.08 and volatility 0.15.
_build_strategy_adapter(config) ==
    LET weights == bt_normalized_weights(config)
        assets == [i \in 1..Len(weights) |->
                      Asset(weights[i].name, R(2, 25), R(3, 20), weights[i].weight)]
    IN  build_strategy(assets, config.strategy)

\* Backtester.__init__
Backtester(config) ==
    [config |-> config,
     strategy |-> _build_strategy_adapter(config),
     asset_names |-> [i \in 1..Len(config.asset_weights) |->
                         config.asset_weights[i].name],
     num_assets |-> Len(config.asset_weights)]

\* A price table: its columns, and its rows (a date in days and a price per
\* column, NaN for a missing one) in the order given.
PriceData(columns, rows) == [columns |-> columns, rows |-> rows]

PriceRow(date, prices) == [date |-> date, prices |-> prices]

\* DataFrame.sort_index: the rows by date.
sort_index(rows) == SortSeq(rows, LAMBDA a, b : a.date < b.date)

\* The price of a column at row t after padding: the last one at or before
\* t that is not NaN.
RECURSIVE padded(_, _, _)
padded(rows, t, name) ==
    IF t = 0 THEN NaN
    ELSE IF ~IsNaN(rows[t].prices[name]) THEN rows[t].prices[name]
    ELSE padded(rows, t - 1, name)

\* DataFrame.pct_change: price / previous price - 1 per column, NaN in the
\* first row; with pad, missing prices are first filled forward.
pct_change(rows, names, pad) ==
    [t \in 1..Len(rows) |->
        [date |-> rows[t].date,
         values |->
             [i \in 1..Len(names) |->
                 IF t = 1 THEN NaN
                 ELSE IF pad
                 THEN RSub(RDiv(padded(rows, t, names[i]),
                                padded(rows, t - 1, names[i])), One)
                 ELSE RSub(RDiv(rows[t].prices[names[i]],
                                rows[t - 1].prices[names[i]]), One)]]]

\* DataFrame.dropna: the rows without a NaN.
dropna(rows) ==
    SelectSeq(rows, LAMBDA row : \A i \in 1..Len(row.values) : ~IsNaN(row.values[i]))

\* The days of a year, 365.25.
DaysPerYear == R(1461, 4)

\* Python's round() of a non-negative rational: to the nearest integer, a
\* half to the even one.
RoundHalfEven(x) ==
    LET floor == x[1] \div x[2]
        twice == 2 * (x[1] % x[2])
    IN  IF twice < x[2] THEN floor
        ELSE IF twice > x[2] THEN floor + 1
        ELSE IF floor % 2 = 0 THEN floor ELSE floor + 1

\* Backtester._estimate_periods_per_year
_estimate_periods_per_year(dates) ==
    IF Len(dates) < 2 THEN 252
    ELSE LET total_days == dates[Len(dates)] - dates[1]
             periods == Len(dates) - 1
             years == RDiv(R(total_days, 1), DaysPerYear)
         IN  IF total_days = 0 THEN 252
             ELSE IF RLe(years, Zero) THEN 252
             ELSE RoundHalfEven(RDiv(R(periods, 1), years))

\* run(), the validation of the data: the error raised ("" for none).
bt_run_validate(self, price_data) ==
    IF \E i \in 1..self.num_assets : self.asset_names[i] \notin price_data.columns
    THEN "missing_assets"
    ELSE IF Len(price_data.rows) < 2 THEN "too_short"
    ELSE ""

Min(a, b) == IF a < b THEN a ELSE b

Max(a, b) == IF a < b THEN b ELSE a

\* run(), from the returns to the loop: its locals.  rebalance_calls keeps,
\* for every call of strategy.rebalance, the period index, the first and
\* last (1-based) return rows the covariance was estimated from (none for
\* None) and the arguments.
bt_run_locals(self, first_date, returns, weights, periods_per_year) ==
    [returns |-> returns,
     first_date |-> first_date,
     weights |-> weights,
     asset_values |-> VScale(weights, self.config.initial_balance),
     portfolio_values |-> <<self.config.initial_balance>>,
     weights_history |-> <<weights>>,
     portfolio_returns |-> <<Zero>>,
     periods_per_year |-> periods_per_year,
     contribution_per_period |->
         IF self.config.contribution_plan.frequency # periods_per_year
         THEN RDiv(self.config.contribution_plan.annual_contribution,
                   R(periods_per_year, 1))
         ELSE periodic_contribution(self.config.contribution_plan),
     i |-> 0,
     rebalance_calls |-> <<>>]

\* run(), up to the loop, for valid data: the locals, or the
\* ZeroDivisionError of annual_contribution / 0.
bt_run_setup(self, price_data, pad) ==
    LET prices == sort_index(price_data.rows)
        returns == dropna(pct_change(prices, self.asset_names, pad))
        weights == [i \in 1..self.num_assets |->
                       bt_normalized_weights(self.config)[i].weight]
        periods_per_year ==
            _estimate_periods_per_year([t \in 1..Len(returns) |-> returns[t].date])
    IN  IF /\ self.config.contribution_plan.frequency # periods_per_year
           /\ periods_per_year = 0
        THEN [raised |-> "ZeroDivisionError", loc |-> NoLocals]
        ELSE [raised |-> "",
              loc |-> bt_run_locals(self, prices[1].date, returns, weights,
                                    periods_per_year)]

\* An iteration that applies no return to the asset values of the first row.
bt_run_grow_after_first(self, loc) ==
    IF loc.i = 0 THEN loc
    ELSE [loc EXCEPT
             !.asset_values =
                 [k \in 1..self.num_assets |->
                     RMul(@[k], RAdd(One, loc.returns[loc.i + 1].values[k]))]]

\* One iteration of the loop, its first half: the contribution, then the
\* returns of row i applied to the asset values.
bt_run_grow(self, loc) ==
    LET contributed ==
            IF RGt(loc.contribution_per_period, Zero)
            THEN VAdd(loc.asset_values,
                      VScale(loc.weights, loc.contribution_per_period))
            ELSE loc.asset_values
    IN  [loc EXCEPT
            !.asset_values =
                [k \in 1..self.num_assets |->
                    RMul(contributed[k],
                         RAdd(One, loc.returns[loc.i + 1].values[k]))]]

\* The end of an iteration: the value, the weights and the return of the
\* period are appended to the history.
bt_run_record(loc, portfolio_value, weights, asset_values) ==
    [loc EXCEPT
        !.asset_values = asset_values,
        !.weights = weights,
        !.portfolio_values = Append(@, portfolio_value),
        !.weights_history = Append(@, weights),
        !.portfolio_returns =
            Append(@, IF loc.i > 0
                      THEN RDiv(RSub(portfolio_value,
                                     loc.portfolio_values[Len(loc.portfolio_values)]),
                                loc.portfolio_values[Len(loc.portfolio_values)])
                      ELSE Zero),
        !.i = @ + 1]

\* The rebalancing of an iteration, given the strategy's answer.
bt_run_rebalanced(loc, portfolio_value, call, weights) ==
    IF weights = ValueError
    THEN [raised |-> "strategy",
          loc |-> [loc EXCEPT !.rebalance_calls = Append(@, call)]]
    ELSE [raised |-> "",
          loc |-> bt_run_record([loc EXCEPT !.rebalance_calls = Append(@, call)],
                                portfolio_value, weights,
                                VScale(weights, portfolio_value))]

\* The rebalancing of an iteration: the strategy is asked with the realized
\* weights and the covariance of the window.
bt_run_rebalance(self, loc, portfolio_value, call) ==
    bt_run_rebalanced(loc, portfolio_value, call,
                      rebalance(self.strategy, call.current_weights, call.covariance))

\* A rebalancing whose covariance is estimated from every return row so far.
bt_rebalance_call_whole_history(loc, portfolio_value) ==
    [i |-> loc.i,
     current_weights |->
         IF RGt(portfolio_value, Zero)
         THEN VDivS(loc.asset_values, portfolio_value)
         ELSE loc.weights,
     rows |-> IF loc.i > 0 THEN <<1, loc.i + 1>> ELSE <<>>,
     covariance |->
         IF loc.i > 0
         THEN np_cov([t \in 1..(loc.i + 1) |-> loc.returns[t].values])
         ELSE CovNone]

\* The arguments of the rebalancing at period index loc.i (loc.asset_values
\* being the grown ones).
bt_rebalance_call(loc, portfolio_value) ==
    LET window_size == Min(20, loc.i + 1)
        first == Max(0, loc.i - window_size + 1) + 1
    IN  [i |-> loc.i,
         current_weights |->
             IF RGt(portfolio_value, Zero)
             THEN VDivS(loc.asset_values, portfolio_value)
             ELSE loc.weights,
         rows |-> IF window_size > 1 THEN <<first, loc.i + 1>> ELSE <<>>,
         covariance |->
             IF window_size > 1
             THEN np_cov([t \in 1..(loc.i + 2 - first) |->
                             loc.returns[first + t - 1].values])
             ELSE CovNone]

\* One iteration of the loop from the grown asset values on.
bt_run_value(self, loc, portfolio_value) ==
    IF (loc.i + 1) % self.config.rebalance_frequency = 0
    THEN bt_run_rebalance(self, loc, portfolio_value,
                          bt_rebalance_call(loc, portfolio_value))
    ELSE [raised |-> "",
          loc |-> bt_run_record(loc, portfolio_value, loc.weights, loc.asset_values)]

bt_run_grown(self, loc) == bt_run_value(self, loc, RSum(loc.asset_values))

\* One iteration of the loop of run(), for the return row of index loc.i:
\* the locals after it, and the error it raised ("" for none).
bt_run_step(self, loc) == bt_run_grown(self, bt_run_grow(self, loc))

\* A result dated by the return rows alone.
bt_run_result_return_dates(self, loc) ==
    [done |-> TRUE,
     dates |-> [t \in 1..Len(loc.returns) |-> loc.returns[t].date],
     portfolio_values |-> loc.portfolio_values,
     weights_history |-> loc.weights_history,
     returns |-> loc.portfolio_returns,
     config |-> self.config]

\* run(), after the loop: the BacktestResult.
bt_run_result(self, loc) ==
    [done |-> TRUE,
     dates |-> <<loc.first_date>>
               \o [t \in 1..Len(loc.returns) |-> loc.returns[t].date],
     portfolio_values |-> loc.portfolio_values,
     weights_history |-> loc.weights_history,
     returns |-> loc.portfolio_returns,
     config |-> self.config]

\* The gain relative to the final value.
total_return_on_final(result) ==
    RDiv(RSub(result.portfolio_values[Len(result.portfolio_values)],
              result.config.initial_balance),
         result.portfolio_values[Len(result.portfolio_values)])

\* BacktestResult.total_return
total_return(result) ==
    RDiv(RSub(result.portfolio_values[Len(result.portfolio_values)],
              result.config.initial_balance),
         result.config.initial_balance)

(***************************************************************************)
(* A backtester built from a configuration and run once on a price table   *)
(***************************************************************************)
\* The longest price table.
MaxRows == 23

BacktestBalance == R(100, 1)

Weight(name, weight) == [name |-> name, weight |-> weight]

\* One asset, and two assets of weights 3 and 4 (normalized by the
\* configuration to 3/7 and 4/7).
BacktestWeights ==
    { <<Weight("A", One)>>, <<Weight("A", R(3, 1)), Weight("B", R(4, 1))>> }

BacktestStrategyConfigs ==
    { StrategyConfig(n, None, R(1, 20), None) :
          n \in StrategyNames \ {"adaptive", "mean_reversion"} }
    \cup { StrategyConfig("target_risk", R(1, 20), R(1, 20), None) }
    \cup { StrategyConfig("adaptive", None, th, None) : th \in {R(1, 20), One} }
    \cup { StrategyConfig("mean_reversion", None, R(1, 20), speed) :
               speed \in {Zero, R(1, 2)} }

BacktestContributionPlans ==
    { ContributionPlan(Zero, 12), ContributionPlan(R(4380, 1), 12) }

\* Every strategy variant without contributions, and contributions with
\* the strategies whose answer does not depend on the realized weights.
BacktestConfigs ==
    { BacktestConfig(BacktestBalance, rf, weights, ContributionPlan(Zero, 12), sc) :
          rf \in {1, 2}, weights \in BacktestWeights,
          sc \in BacktestStrategyConfigs }
    \cup
    { BacktestConfig(BacktestBalance, rf, weights, plan,
                     StrategyConfig(n, None, R(1, 20), None)) :
          rf \in {1, 2}, weights \in BacktestWeights,
          plan \in BacktestContributionPlans,
          n \in StrategyNames \ {"adaptive", "mean_reversion"} }

\* A row of prices of the columns A and B.
RowAB(date, a, b) ==
    PriceRow(date, [name \in {"A", "B"} |-> IF name = "A" THEN a ELSE b])

P(n) == R(n, 1)

\* MaxRows daily prices of one column: 100, then 300 and 150 in turn.
LongTable ==
    PriceData({"A"},
              [t \in 1..MaxRows |->
                  PriceRow(t - 1, [name \in {"A"} |->
                                      IF t = 1 THEN P(100)
                                      ELSE IF t % 2 = 0 THEN P(300) ELSE P(150)])])

\* Price tables: daily prices of one column (100, 110, 99) and of two; the
\* same out of order; a table with a missing price; monthly prices; one of a
\* single row; one whose rows are years apart; and the long table.
PriceTables ==
    { LongTable,
      PriceData({"A"},
                << PriceRow(0, [name \in {"A"} |-> P(100)]),
                   PriceRow(1, [name \in {"A"} |-> P(110)]),
                   PriceRow(2, [name \in {"A"} |-> P(99)]) >>),
      PriceData({"A", "B"},
                << RowAB(0, P(100), P(50)), RowAB(1, P(110), P(50)),
                   RowAB(2, P(99), P(60)), RowAB(3, P(99), P(45)) >>),
      PriceData({"A", "B"},
                << RowAB(2, P(99), P(60)), RowAB(0, P(100), P(50)),
                   RowAB(1, P(110), P(50)) >>),
      PriceData({"A", "B"},
                << RowAB(0, P(100), P(50)), RowAB(1, NaN, P(50)),
                   RowAB(2, P(120), P(50)), RowAB(3, P(60), P(100)) >>),
      PriceData({"A", "B"},
                << RowAB(0, P(100), P(50)), RowAB(30, P(110), P(50)),
                   RowAB(61, P(99), P(60)), RowAB(91, P(99), P(45)) >>),
      PriceData({"A", "B"}, << RowAB(0, P(100), P(50)) >>),
      PriceData({"A", "B"},
                << RowAB(0, P(100), P(50)), RowAB(400, P(110), P(50)),
                   RowAB(1200, P(99), P(60)) >>) }

BacktestIdle ==
    /\ btConfig = Idle
    /\ btPriceData = PriceData({}, <<>>)
    /\ btPad = FALSE
    /\ bt = NotConstructed

\* The configuration passes the validation of BacktestConfig; the installed
\* pandas either pads missing prices in pct_change or does not.
BacktestInit ==
    /\ btConfig \in BacktestConfigs
    /\ btPriceData \in PriceTables
    /\ Len(btPriceData.rows) <= MaxRows
    /\ btPad \in BOOLEAN
    /\ bt = NotConstructed

\* Backtester(config)
BacktestConstruct ==
    /\ bt.pc = "none"
    /\ bt' = [pc |-> "ready", self |-> Backtester(btConfig), loc |-> NoLocals,
              result |-> NoResult, total_return |-> None]
    /\ UNCHANGED <<btConfig, btPriceData, btPad, notBacktest>>

\* run(price_data) is called: it raises on invalid data, or reaches its loop.
BacktestRunStart ==
    /\ bt.pc = "ready"
    /\ LET invalid == bt_run_validate(bt.self, btPriceData)
           setup == bt_run_setup(bt.self, btPriceData, btPad)
       IN  IF invalid # ""
           THEN bt' = [bt EXCEPT !.pc = "error",
                                 !.result = [done |-> FALSE, raised |-> invalid]]
           ELSE IF setup.raised # ""
           THEN bt' = [bt EXCEPT !.pc = "error",
                                 !.result = [done |-> FALSE, raised |-> setup.raised]]
           ELSE bt' = [bt EXCEPT !.pc = "running", !.loc = setup.loc]
    /\ UNCHANGED <<btConfig, btPriceData, btPad, notBacktest>>

\* One iteration of the loop of run(); an error of the strategy ends the run.
BacktestRunStep ==
    /\ bt.pc = "running"
    /\ bt.loc.i < Len(bt.loc.returns)
    /\ LET out == bt_run_step(bt.self, bt.loc)
       IN  bt' = [bt EXCEPT
                     !.pc = IF out.raised = "" THEN "running" ELSE "error",
                     !.loc = out.loc,
                     !.result = [done |-> FALSE, raised |-> out.raised]]
    /\ UNCHANGED <<btConfig, btPriceData, btPad, notBacktest>>

\* run() returns its result.
BacktestRunReturn ==
    /\ bt.pc = "running"
    /\ bt.loc.i = Len(bt.loc.returns)
    /\ bt' = [bt EXCEPT !.pc = "done", !.result = bt_run_result(bt.self, bt.loc)]
    /\ UNCHANGED <<btConfig, btPriceData, btPad, notBacktest>>

\* result.total_return()
BacktestTotalReturn ==
    /\ bt.pc = "done"
    /\ bt.total_return = None
    /\ bt' = [bt EXCEPT !.total_return = total_return(bt.result)]
    /\ UNCHANGED <<btConfig, btPriceData, btPad, notBacktest>>

BacktestNext ==
    \/ BacktestConstruct
    \/ BacktestRunStart
    \/ BacktestRunStep
    \/ BacktestRunReturn
    \/ BacktestTotalReturn

(***************************************************************************)
(* Claims about the backtester                                             *)
(***************************************************************************)
\* The product of (1 + r) over the first k realized returns of asset 1.
RECURSIVE Compounded(_, _)
Compounded(returns, k) ==
    IF k = 0 THEN One
    ELSE RMul(Compounded(returns, k - 1), RAdd(One, returns[k].values[1]))

SingleAssetNoContribution ==
    /\ bt.pc \in {"running", "done"}
    /\ bt.self.num_assets = 1
    /\ bt.self.config.contribution_plan.annual_contribution = Zero

\* C13: in a backtest of a single asset without contributions, the
\* portfolio value after period k is initial_balance times the product of
\* (1 + r) over the first k realized returns, for every k reached.
C13_ReturnsCompoundInOrder ==
    SingleAssetNoContribution =>
        \A k \in 0..bt.loc.i :
            bt.loc.portfolio_values[k + 1] =
                RMul(bt.self.config.initial_balance, Compounded(bt.loc.returns, k))

\* The prices 100, 110, 99 of one asset ended at initial_balance * 1.10 * 0.90.
C13_Witness ==
    /\ SingleAssetNoContribution
    /\ bt.pc = "done"
    /\ Len(bt.loc.returns) = 2
    /\ bt.loc.returns[1].values = <<R(1, 10)>>
    /\ bt.loc.returns[2].values = <<R(-1, 10)>>
    /\ bt.result.portfolio_values[3] =
           RMul(BacktestBalance, RMul(R(11, 10), R(9, 10)))

\* C14: in the result of a completed backtest, dates, portfolio_values,
\* weights_history and returns have the length of the realized return rows
\* plus one, and portfolio_values starts at initial_balance.
C14_ResultLengths ==
    bt.pc = "done" =>
        /\ Len(bt.result.dates) = Len(bt.loc.returns) + 1
        /\ Len(bt.result.portfolio_values) = Len(bt.loc.returns) + 1
        /\ Len(bt.result.weights_history) = Len(bt.loc.returns) + 1
        /\ Len(bt.result.returns) = Len(bt.loc.returns) + 1
        /\ bt.result.portfolio_values[1] = bt.result.config.initial_balance

\* A backtest of two assets over three realized periods has completed.
C14_Witness ==
    /\ bt.pc = "done"
    /\ bt.self.num_assets = 2
    /\ Len(bt.loc.returns) = 3
    /\ Len(bt.result.dates) = 4

\* C19: total_return() of a completed backtest is
\* portfolio_values[-1] / initial_balance - 1.
C19_TotalReturn ==
    (bt.pc = "done" /\ bt.total_return # None) =>
        bt.total_return =
            RSub(RDiv(bt.result.portfolio_values[Len(bt.result.portfolio_values)],
                      bt.result.config.initial_balance),
                 One)

\* total_return() was asked of a backtest that lost one percent.
C19_Witness ==
    /\ bt.pc = "done"
    /\ bt.result.portfolio_values[Len(bt.result.portfolio_values)] = R(99, 1)
    /\ bt.total_return = R(-1, 100)

\* C28: in the result of a completed backtest the first return is 0 and
\* every later one is the relative change of the value:
\* returns[k] = (portfolio_values[k] - portfolio_values[k-1]) /
\* portfolio_values[k-1] for every index k >= 1 (counted from 0).
C28_ReturnsFollowValues ==
    bt.pc = "done" =>
        /\ bt.result.returns[1] = Zero
        /\ \A k \in 2..Len(bt.result.returns) :
               bt.result.returns[k] =
                   RDiv(RSub(bt.result.portfolio_values[k],
                             bt.result.portfolio_values[k - 1]),
                        bt.result.portfolio_values[k - 1])

\* The table has at least 2 rows, in strictly increasing order of date.
IncreasingDates(price_data) ==
    /\ Len(price_data.rows) >= 2
    /\ \A t \in 1..(Len(price_data.rows) - 1) :
           price_data.rows[t].date < price_data.rows[t + 1].date

\* C29: on a price table of at least 2 rows with strictly increasing dates,
\* run() infers a positive number of periods per year, its contribution per
\* period is a finite number that is not negative, and no division by zero
\* ends the run.
C29_PeriodsPerYearPositive ==
    (bt.pc \in {"running", "done", "error"} /\ IncreasingDates(btPriceData)) =>
        /\ ~(bt.pc = "error" /\ bt.result.raised = "ZeroDivisionError")
        /\ bt.pc \in {"running", "done"} =>
              /\ bt.loc.periods_per_year > 0
              /\ IsFinite(bt.loc.contribution_per_period)
              /\ RLe(Zero, bt.loc.contribution_per_period)

\* The period indices 0..(n - 1) at which a rebalancing is due.
DuePeriods(n, rebalance_frequency) ==
    { i \in 0..(n - 1) : (i + 1) % rebalance_frequency = 0 }

\* The covariance of the last size return rows ending at the row of period
\* index i (row i + 1 of the sequence).
TrailingCovariance(returns, i, size) ==
    np_cov([t \in 1..size |-> returns[i + 1 - size + t].values])

\* C26: run() calls strategy.rebalance at the period index i exactly when
\* i + 1 is a multiple of rebalance_frequency; the covariance it passes is
\* that of the last min(20, i + 1) return rows ending at row i, and it is
\* None exactly when i = 0.  The arguments are those of the latest call, so
\* every call is examined in the state that follows it.
C26_RebalanceTimingAndWindow ==
    bt.pc \in {"running", "done"} =>
        /\ { bt.loc.rebalance_calls[c].i : c \in 1..Len(bt.loc.rebalance_calls) }
               = DuePeriods(bt.loc.i, bt.self.config.rebalance_frequency)
        /\ Len(bt.loc.rebalance_calls) =
               Cardinality(DuePeriods(bt.loc.i, bt.self.config.rebalance_frequency))
        /\ \A c \in {Len(bt.loc.rebalance_calls)} \ {0} :
               LET call == bt.loc.rebalance_calls[c]
               IN  /\ (call.covariance = CovNone) <=> (call.i = 0)
                   /\ call.i > 0 =>
                         call.covariance =
                             TrailingCovariance(bt.loc.returns, call.i,
                                                IF call.i + 1 < 20 THEN call.i + 1
                                                ELSE 20)

\* A backtest rebalancing every period was asked at period index 21 with the
\* covariance of the return rows 2..21, which differs from that of the 21
\* rows before it and from that of all rows.
C26_Witness ==
    /\ bt.pc \in {"running", "done"}
    /\ bt.self.config.rebalance_frequency = 1
    /\ Len(bt.loc.rebalance_calls) = 22
    /\ bt.loc.rebalance_calls[22].i = 21
    /\ bt.loc.rebalance_calls[22].covariance =
           TrailingCovariance(bt.loc.returns, 21, 20)
    /\ bt.loc.rebalance_calls[22].covariance #
           TrailingCovariance(bt.loc.returns, 21, 21)
    /\ bt.loc.rebalance_calls[22].covariance #
           TrailingCovariance(bt.loc.returns, 21, 22)
    /\ bt.loc.rebalance_calls[1].covariance = CovNone

\* In the forward simulator, after the redistribution of a rebalance step,
\* every trial's asset values sum to its portfolio value of that step.
ForwardRebalanceConservesValue ==
    \A i \in 1..2 :
        Redistributed(i) =>
            \A j \in 1..fwd[i].self.config.num_trials :
                /\ RSum(fwd[i].loc.asset_values[j]) =
                       fwd[i].loc.log.portfolio_values[j]
                /\ fwd[i].loc.log.portfolio_values[j] =
                       fwd[i].loc.trajectories[j][fwd[i].loc.log.step]

\* The backtester has just completed a period with a rebalancing.
BacktestRebalanced ==
    /\ bt.pc \in {"running", "done"}
    /\ bt.loc.i >= 1
    /\ Len(bt.loc.rebalance_calls) >= 1
    /\ bt.loc.rebalance_calls[Len(bt.loc.rebalance_calls)].i = bt.loc.i - 1

\* In the backtester, after the redistribution of a rebalance step the asset
\* values sum to the portfolio value recorded for the step.
BacktestRebalanceConservesValue ==
    BacktestRebalanced =>
        RSum(bt.loc.asset_values) = bt.loc.portfolio_values[bt.loc.i + 1]

\* C27: at every rebalance step of ForwardSimulator.run (for each trial) and
\* of Backtester.run, the asset values after the redistribution sum to the
\* portfolio value recorded for the step, whatever the strategy.
C27_RebalanceConservesValue ==
    ForwardRebalanceConservesValue /\ BacktestRebalanceConservesValue

(***************************************************************************)
(* generate_returns under calls                                            *)
(***************************************************************************)
\* The largest number of samples asked for.
MaxSize == 3

SamplerDistNames == {"normal", "student_t", "empirical_bootstrap", "lognormal"}

Dict1(k1, v1) == [key \in {k1} |-> v1]

Dict2(k1, v1, k2, v2) == [key \in {k1, k2} |-> IF key = k1 THEN v1 ELSE v2]

\* params dicts: empty, with one or both of mean and vol, with a df that is
\* positive, zero or negative, and with historical_returns empty, a list or
\* a number.
SamplerParams ==
    { <<>>,
      Dict1("mean", Scalar(R(1, 100))),
      Dict1("vol", Scalar(R(1, 10))),
      Dict2("mean", Scalar(R(1, 100)), "vol", Scalar(R(1, 10))),
      Dict1("df", Scalar(R(4, 1))),
      Dict1("df", Scalar(Zero)),
      Dict2("df", Scalar(R(-1, 1)), "mean", Scalar(R(1, 100))),
      Dict1("historical_returns", PerAsset(<<>>)),
      Dict1("historical_returns", PerAsset(<<R(1, 10), R(-1, 10)>>)),
      Dict1("historical_returns", Scalar(R(1, 10))),
      Dict2("historical_returns", PerAsset(<<>>), "mean", Scalar(Zero)) }

NoSamplerCall == [called |-> FALSE]

SamplerIdle == genCall = NoSamplerCall /\ genReturned = <<>>

\* The arguments generate_returns is called with; the generator may have
\* been drawn from before.
SamplerInit ==
    /\ \E dist_name \in SamplerDistNames, size \in 1..MaxSize,
          params \in SamplerParams, seed \in 1..NumSeeds, pos \in {0, 3} :
          genCall = [called |-> FALSE, dist_name |-> dist_name, size |-> size,
                     params |-> params,
                     rng |-> Advance(default_rng(seed), pos)]
    /\ genReturned = <<>>

\* generate_returns(dist_name, size, params, rng)
GenerateReturns ==
    /\ genCall # NoSamplerCall
    /\ ~genCall.called
    /\ genCall' = [genCall EXCEPT !.called = TRUE]
    /\ genReturned' = generate_returns(genCall.dist_name, genCall.size,
                                       genCall.params, genCall.rng)
    /\ UNCHANGED notSampler

SamplerNext == GenerateReturns

\* The arguments name a distribution that is not supported, or lack a
\* required parameter, or have a df that is not positive, or historical
\* returns that are missing or empty.
InvalidSamplerCall ==
    \/ genCall.dist_name \notin {"normal", "student_t", "empirical_bootstrap"}
    \/ /\ genCall.dist_name = "normal"
       /\ ~({"mean", "vol"} \subseteq DOMAIN genCall.params)
    \/ /\ genCall.dist_name = "student_t"
       /\ "df" \in DOMAIN genCall.params
       /\ RLe(genCall.params["df"].value, Zero)
    \/ /\ genCall.dist_name = "empirical_bootstrap"
       /\ \/ "historical_returns" \notin DOMAIN genCall.params
          \/ /\ genCall.params["historical_returns"].kind = "list"
             /\ genCall.params["historical_returns"].value = <<>>

\* C16: generate_returns raises for an unsupported dist_name, for "normal"
\* without mean or vol, for "student_t" with df <= 0 and for
\* "empirical_bootstrap" with historical_returns missing or empty, and the
\* generator is then where it was before the call.
C16_InvalidCallRaisesBeforeDrawing ==
    (genCall # NoSamplerCall /\ genCall.called /\ InvalidSamplerCall) =>
        /\ genReturned.raised
        /\ genReturned.rng = genCall.rng

\* A call with df = 0, on a generator drawn from before, has raised.
C16_Witness ==
    /\ genCall # NoSamplerCall
    /\ genCall.called
    /\ genCall.dist_name = "student_t"
    /\ genCall.params = Dict1("df", Scalar(Zero))
    /\ genCall.rng.pos = 3
    /\ genReturned.raised
    /\ genReturned.rng.pos = 3

(***************************************************************************)
(* The specifications: one component at work, the others idle              *)
(***************************************************************************)
InitStrategy ==
    StrategyInit /\ OptionIdle /\ ForwardIdle /\ RiskIdle /\ BacktestIdle
    /\ SamplerIdle

SpecStrategy == InitStrategy /\ [][StrategyNext]_vars

InitOption ==
    OptionInit /\ StrategyIdle /\ ForwardIdle /\ RiskIdle /\ BacktestIdle
    /\ SamplerIdle

SpecOption == InitOption /\ [][OptionNext]_vars

InitForward ==
    ForwardInit /\ StrategyIdle /\ OptionIdle /\ RiskIdle /\ BacktestIdle
    /\ SamplerIdle

SpecForward == InitForward /\ [][ForwardNext]_vars

InitRisk ==
    RiskInit /\ StrategyIdle /\ OptionIdle /\ ForwardIdle /\ BacktestIdle
    /\ SamplerIdle

SpecRisk == InitRisk /\ [][RiskNext]_vars

InitBacktest ==
    BacktestInit /\ StrategyIdle /\ OptionIdle /\ ForwardIdle /\ RiskIdle
    /\ SamplerIdle

SpecBacktest == InitBacktest /\ [][BacktestNext]_vars

InitSampler ==
    SamplerInit /\ StrategyIdle /\ OptionIdle /\ ForwardIdle /\ RiskIdle
    /\ BacktestIdle

SpecSampler == InitSampler /\ [][SamplerNext]_vars

=============================================================================
